---- MODULE Spec2Model ----
(***************************************************************************)
(* Model of the otel-api-scraper scrape loop: ScraperEngine.scrape_source  *)
(* with its window fan-out, the per-source and gateway semaphores, the     *)
(* OAuth token lock, the last-success state store, the scheduler / admin / *)
(* start-up triggers, and the pipeline's delta detection on the            *)
(* fingerprint store.                                                      *)
(*                                                                         *)
(* Every action is one stretch of code between two suspension points of    *)
(* the asyncio event loop (an await that really yields: HTTP I/O, a store  *)
(* call, a wait on a semaphore or lock).                                   *)
(***************************************************************************)
EXTENDS Integers, Sequences, FiniteSets, TLC

\* ------------------------------------------------------------------------
\* Bounds of the model
\* ------------------------------------------------------------------------
\* number of scrape_source invocations over a run
MaxRuns == 3
\* the clock runs from 0 (process start) to MaxClock
MaxClock == 2
\* records a pipeline run returns for one window: 0..MaxRecs
MaxRecs == 1
\* pipeline runs of the delta-detection specification
MaxPipelineRuns == 2
\* records in the batch of one pipeline run: 1..MaxBatch
MaxBatch == 2
\* window planning: range bounds are 0..MaxTime, slice lengths 1..MaxDelta
MaxTime == 6
MaxDelta == 3

\* ------------------------------------------------------------------------
\* Optional values: None is <<>>, Some(x) is <<x>>
\* ------------------------------------------------------------------------
None == <<>>
Some(x) == <<x>>

\* ------------------------------------------------------------------------
\* Source names, and the clock-unit values of the token refresh logic
\* ------------------------------------------------------------------------
Sources == {"a", "b"}

\* the refresh margin of _get_token (30 seconds), in clock units
TokenSkew == 1

\* the expires_in values a token endpoint answers with, in clock units
ExpiresIn == {2}

\* ------------------------------------------------------------------------
\* State
\* ------------------------------------------------------------------------
VARIABLES
    conf,               \* the loaded AppConfig (never changes)
    clock,              \* utc_now(), time since process start
    alive,              \* FALSE once async_main has died on an exception
    kicked,             \* scheduler.start() and run_all_once() were called
    nTicks,             \* scrape_source invocations so far
    ticks,              \* [1..MaxRuns -> invocation record]
    lastSuccess,        \* state store: [Sources -> None | Some(timestamp)]
    source_semaphores,  \* engine.source_semaphores: None | Some(_value)
    gwSem,              \* AsyncHttpClient._sem._value (free permits)
    covered,            \* history: windows fetched and processed without error
    firstPlanned,       \* history: start of the first window ever planned
    overlapped,         \* history: two invocations of the source ever overlapped
    issued,             \* history: the token the token endpoint issued last
                        \* for the source, None | Some([upto, expiresAt])
    fingerprints,       \* fingerprint store: rows of table fingerprints
    fpLock,             \* SqliteFingerprintStore._lock: holder (0 = free)
    fpWaiters,          \* SqliteFingerprintStore._lock: queue of waiting runs
    runs,               \* pipeline runs (RecordPipeline.run invocations)
    keptLog,            \* history: records the pipeline kept
    removed,            \* history: rows removed from the store and not re-inserted
    tickEnded,          \* ticks (of the pipeline runs) whose scrape has ended
    last_stats,         \* RecordPipeline.last_stats, of the one pipeline
    dedupe,             \* history: the stats each tick gave to record_dedupe
    fnArgs,             \* the arguments of a function or store call under study
    fnResult,           \* its result, None until it has returned
    fpStore,            \* the store build_store returned: its class, and the
                        \* state of the memory and valkey variants
    main,               \* async_main: its position, and the calls of its
                        \* finally block so far
    cleanup_task,       \* the task running _cleanup_loop
    emit_tasks,         \* telemetry._emit_tasks
    tasks,              \* the detached emit tasks created so far
    gauge,              \* a GaugeAggregator: values, a reference into heap
    heap,               \* the list objects gauge values are built in
    reader              \* the exporter thread running GaugeAggregator._callback

engineVars == <<alive, kicked, nTicks, ticks, lastSuccess, source_semaphores,
                gwSem, covered, firstPlanned, overlapped, issued>>

dedupVars == <<fingerprints, fpLock, fpWaiters, runs, keptLog, removed,
              tickEnded, last_stats, dedupe>>

callVars == <<fnArgs, fnResult>>

storeVars == <<fpStore>>

procVars == <<main, cleanup_task, emit_tasks, tasks, gauge, heap, reader>>

vars == <<conf, clock, engineVars, dedupVars, callVars, storeVars, procVars>>

TickIds == 1..MaxRuns

\* ------------------------------------------------------------------------
\* Configuration accessors (config.py); durations are in clock units
\* ------------------------------------------------------------------------
\* app_config.sources, in configuration order
SourceList == conf.sources

ScraperAllowOverlapScans == conf.allowOverlapScans

DefaultSourceConcurrency == conf.defaultSourceConcurrency

MaxGlobalConcurrency == conf.maxGlobalConcurrency

EnableAdminApi == conf.enableAdminApi

TerminateGracefully == conf.terminateGracefully

SourceAllowOverlapScans(s) == conf.source[s].allowOverlapScans

RunFirstScrape(s) == conf.source[s].runFirstScrape

ScrapeType(s) == conf.source[s].type

\* parse_frequency(source.frequency)
Frequency(s) == conf.source[s].frequency

\* scrape.parallelWindow as a timedelta (_parallel_delta), or None
ParallelWindow(s) == conf.source[s].parallelWindow

\* rangeKeys.firstScrapeStart (parsed), or None
FirstScrapeStart(s) == conf.source[s].firstScrapeStart

\* scrape.maxConcurrency, or None
MaxConcurrency(s) == conf.source[s].maxConcurrency

\* source.auth: "none" or "oauth" (OAuthAuthConfig with runtime=true and no
\* static token)
AuthKind(s) == conf.source[s].auth

\* deltaDetection.enabled
DeltaDetectionEnabled(s) == conf.source[s].deltaDetection

\* scraper.enforceTls
EnforceTls == conf.enforceTls

\* the scheme of build_url(source.baseUrl, source.endpoint), lower-cased:
\* "http" or "https"
UrlScheme(s) == conf.source[s].scheme

\* source.dataKey is set
HasDataKey(s) == conf.source[s].dataKey

\* the paths _uses_root_payload looks at: the dataKey of every gauge, counter,
\* histogram and attribute, and logStatusField.name. A path is the sequence
\* of its dot-separated segments.
MappingPaths(s) ==
    LET m == conf.source[s].mappings
        keys(list) == {list[i] : i \in 1..Len(list)}
    IN  keys(m.gaugeReadings) \cup keys(m.counterReadings)
        \cup keys(m.histogramReadings) \cup keys(m.attributes)
        \cup (IF m.logStatusField = None THEN {} ELSE {m.logStatusField[1]})

\* needs_root: path.startswith("$root.")
needs_root(path) == Len(path) >= 2 /\ path[1] = "$root"

\* ScraperEngine._uses_root_payload
uses_root_payload(s) == \E path \in MappingPaths(s) : needs_root(path)

\* fingerprintStore.maxEntriesPerSource (SqliteFingerprintStore.max_entries)
MaxEntriesPerSource == conf.maxEntriesPerSource

\* the ttl _apply_delta_detection passes to the store:
\* dd.ttlSeconds or global_cfg.defaultTtlSeconds
Ttl(s) ==
    IF conf.source[s].ttlSeconds # None /\ conf.source[s].ttlSeconds[1] # 0
    THEN conf.source[s].ttlSeconds[1]
    ELSE conf.defaultTtlSeconds

\* ------------------------------------------------------------------------
\* utils.window_slices
\* ------------------------------------------------------------------------
Min(x, y) == IF x < y THEN x ELSE y

\* faulty variant of window_slices: the last slice is not truncated to end
RECURSIVE window_slices_untruncated(_, _, _)
window_slices_untruncated(start, end, delta) ==
    IF start < end
    THEN <<<<start, start + delta>>>>
         \o window_slices_untruncated(start + delta, end, delta)
    ELSE <<>>

\* utils.window_slices: `while cursor < end`, one slice per turn
RECURSIVE window_slices(_, _, _)
window_slices(start, end, delta) ==
    IF start < end
    THEN LET next_cursor == Min(start + delta, end)
         IN  <<<<start, next_cursor>>>> \o window_slices(next_cursor, end, delta)
    ELSE <<>>

\* ScraperEngine._compute_windows: the list of windows of a tick
compute_windows(s, now, last_success) ==
    IF ScrapeType(s) = "instant"
    THEN <<None>>
    ELSE LET start_time ==
                 IF last_success = None
                 THEN IF FirstScrapeStart(s) # None
                      THEN FirstScrapeStart(s)[1]
                      ELSE now - Frequency(s)
                 ELSE last_success[1]
         IN  IF ParallelWindow(s) # None
             THEN window_slices(start_time, now, ParallelWindow(s)[1])
             ELSE <<<<start_time, now>>>>

\* faulty variant of SourceLimit: the semaphore is created one permit too large
SourceLimitOffByOne(s) ==
    IF MaxConcurrency(s) # None /\ MaxConcurrency(s)[1] # 0
    THEN MaxConcurrency(s)[1] + 1
    ELSE DefaultSourceConcurrency + 1

\* ScraperEngine._source_semaphore: the limit a new semaphore is created with
SourceLimit(s) ==
    IF MaxConcurrency(s) # None /\ MaxConcurrency(s)[1] # 0
    THEN MaxConcurrency(s)[1]
    ELSE DefaultSourceConcurrency

\* scheduler.start: max_instances of the source's job
MaxInstances(s) ==
    IF ScraperAllowOverlapScans \/ SourceAllowOverlapScans(s) THEN 999 ELSE 1


\* ------------------------------------------------------------------------
\* Invocation (tick) records
\* ------------------------------------------------------------------------
IdleTick ==
    [pc |-> "idle", src |-> "", origin |-> "", start |-> 0, read |-> FALSE,
     last |-> None,
     windows |-> <<>>, status |-> "success", hadErrors |-> FALSE,
     raised |-> FALSE, wrote |-> None, writes |-> 0,
     token |-> FALSE, expiresAt |-> None, tnow |-> 0, lock |-> 0,
     fetched |-> FALSE, piped |-> FALSE, emits |-> 0, batches |-> {},
     recorded |-> None]

\* scrape_source up to its first await: start_time = utc_now(),
\* status = "success", then the state-store read is awaited
NewTick(s, origin, now) ==
    [IdleTick EXCEPT !.pc = "read", !.src = s, !.origin = origin, !.start = now]

Running(s) ==
    {t \in TickIds : ticks[t].src = s /\ ticks[t].pc \notin {"idle", "done"}}

WindowIds(tk) == 1..Len(tk.windows)

SetW(tk, i, pc) == [tk EXCEPT !.windows[i].pc = pc]

\* a window of a tick: its range, the position of its run_window task, the
\* result of run_window, and history: the calls of _fetch_window for it, the
\* data requests sent for it, the kind of payload its request was answered with
NewWindow(w) ==
    [w |-> w, pc |-> "wait_sem", recs |-> 0, err |-> FALSE,
     calls |-> 0, reqs |-> 0, payload |-> "none"]

\* run_window's return: (processed, errored, raw_payload)
FinishW(tk, i, recs, err) ==
    [tk EXCEPT !.windows[i].pc = "done",
               !.windows[i].recs = recs,
               !.windows[i].err = err]

\* faulty variant of TokenValid: the cached token is never reused
TokenValidNever(tk, now) == FALSE

\* OAuthStrategy._get_token: the cached token is reused
TokenValid(tk, now) ==
    tk.token /\ (tk.expiresAt = None \/ now < tk.expiresAt[1] - TokenSkew)

\* AsyncHttpClient.request from its entry to the first suspension: the
\* gateway permit is taken and the request sent, or the task waits for a permit
ToRequest(tk, i, gw) ==
    IF gw > 0
    THEN [tick |-> [SetW(tk, i, "http") EXCEPT !.fetched = TRUE,
                                               !.windows[i].reqs = @ + 1],
          gw |-> gw - 1]
    ELSE [tick |-> SetW(tk, i, "wait_gw"), gw |-> gw]

\* faulty variant of TlsRejected: the plaintext test is skipped
TlsRejectedNever(s) == FALSE

\* AsyncHttpClient.request: enforce_tls and url.lower().startswith("http://")
TlsRejected(s) == EnforceTls /\ UrlScheme(s) = "http"

\* AsyncHttpClient.request as _fetch_window calls it: a plaintext URL under
\* enforceTls raises before "async with self._sem", and run_window returns
\* ([], True, None)
Request(tk, i, gw) ==
    IF TlsRejected(tk.src)
    THEN [tick |-> FinishW(tk, i, 0, TRUE), gw |-> gw]
    ELSE ToRequest(tk, i, gw)

\* _get_token with the strategy lock held: reuse the token or send the token
\* request (on the raw client, outside the gateway semaphore)
WithLock(tk, i, gw, now) ==
    IF TokenValid(tk, now)
    THEN Request(tk, i, gw)
    ELSE [tick |-> [SetW(tk, i, "token") EXCEPT !.lock = i, !.tnow = now,
                                               !.fetched = TRUE],
          gw |-> gw]

\* _fetch_window from its entry to the first suspension
BeginFetch(tk, i, gw, now) ==
    LET called == [tk EXCEPT !.windows[i].calls = @ + 1] IN
    IF AuthKind(tk.src) = "none"
    THEN Request(called, i, gw)
    ELSE IF tk.lock # 0
         THEN [tick |-> SetW(called, i, "wait_lock"), gw |-> gw]
         ELSE WithLock(called, i, gw, now)

\* _fetch_window lines 307-308: the payload passes unless a `$root.` path is
\* configured and the payload is not an object
ShapeCheck(s, payload) == ~(uses_root_payload(s) /\ payload # "object")

\* utils.extract_records(payload, source.dataKey) by kind of payload:
\* without dataKey a list is the record list and an object raises
\* ShapeMismatch; with a dataKey an object is walked to its records and a
\* list holds nothing under the key
extract_records(s, payload) ==
    IF ~HasDataKey(s)
    THEN IF payload = "list" THEN "records" ELSE "raise"
    ELSE IF payload = "object" THEN "records" ELSE "empty"

\* faulty variant of SemAfter: the permit is not given back when run_window
\* has returned
SemAfterKept(s, after, i, entered) ==
    [source_semaphores EXCEPT ![s] = Some(@[1] - (IF entered THEN 1 ELSE 0))]

\* the per-source semaphore after a step of window i of source s: a permit
\* taken by "async with sem" when the step entered it, a permit given back
\* when run_window has returned
SemAfter(s, after, i, entered) ==
    [source_semaphores EXCEPT ![s] =
        Some(@[1] - (IF entered THEN 1 ELSE 0)
                  + (IF after.windows[i].pc = "done" THEN 1 ELSE 0))]

\* faulty variant of ShouldSkip: the runFirstScrape flag is read inverted
ShouldSkipInverted(s, last_success) == last_success = None /\ RunFirstScrape(s)

\* scrape_source line 67: the first-run skip
ShouldSkip(s, last_success) == last_success = None /\ ~RunFirstScrape(s)

\* faulty variant of CommitValue: the time of the commit is written, not start_time
CommitValueNow(tk, now) == now

\* scrape_source line 127: the value handed to set_last_success
CommitValue(tk, now) == tk.start

\* the finally block: record_self_scrape(status); an exception leaves
\* scrape_source, and one that reaches run_all_once ends async_main. The
\* locals of the invocation (the window tasks, the auth strategy) are gone.
Finally(tk, raised) ==
    [tk EXCEPT !.pc = "done", !.raised = raised, !.recorded = Some(tk.status),
               !.windows = <<>>, !.token = FALSE, !.expiresAt = None,
               !.tnow = 0, !.lock = 0]

Survives(tk, raised) == ~(raised /\ tk.origin = "kick")

\* ------------------------------------------------------------------------
\* Initial state: the components are constructed, nothing has run
\* ------------------------------------------------------------------------
\* build_store: the class of the store it returns; client_ok says whether
\* ValkeyFingerprintStore(...) could be constructed (any exception there
\* degrades to the memory store)
build_store(backend, client_ok) ==
    IF backend = "sqlite"
    THEN "sqlite"
    ELSE IF backend \in {"valkey", "redis"} /\ client_ok
         THEN "valkey"
         ELSE "memory"

\* a store as its constructor leaves it: MemoryFingerprintStore.store (per
\* source, the dict's items in insertion order), the valkey server's keys
\* and sorted-set indexes, and ValkeyFingerprintStore.sources
NewStore(kind) ==
    [kind |-> kind, store |-> [s \in Sources |-> <<>>], keys |-> {},
     index |-> {}, sources |-> {}]

\* async_main in its sleep loop, the cleanup loop in its first sleep, no
\* emit task created, the gauge holding the empty list of its constructor,
\* no collection going on
\* RecordPipeline.__init__: last_stats; no tick has ended
StatsIdle ==
    /\ last_stats = [hits |-> 0, misses |-> 0, total |-> 0]
    /\ dedupe = [k \in 1..MaxPipelineRuns |-> None]

ProcIdle ==
    /\ main = [pc |-> "running", log |-> <<>>, gathered |-> {}]
    /\ cleanup_task = [pc |-> "sleep", must_cancel |-> FALSE, events |-> <<>>]
    /\ emit_tasks = {}
    /\ tasks = <<>>
    /\ gauge = [values |-> 1]
    /\ heap = <<<<>>>>
    /\ reader = [pc |-> "idle", list |-> 0, at |-> 0, out |-> <<>>,
                 began |-> 0]

DedupIdle ==
    /\ fnArgs = None
    /\ fnResult = None
    /\ fpStore = NewStore(build_store("sqlite", TRUE))
    /\ ProcIdle
    /\ fingerprints = {}
    /\ fpLock = 0
    /\ fpWaiters = <<>>
    /\ runs = <<>>
    /\ keptLog = {}
    /\ removed = {}
    /\ tickEnded = {}
    /\ StatsIdle

\* The configuration of the scrape-loop specification: two range sources.
\*   a: one window per tick, runFirstScrape, runtime OAuth, maxConcurrency=2
\*      (above defaultSourceConcurrency), no overlap, no delta detection
\*   b: parallelWindow of one clock unit, runFirstScrape=false (first tick
\*      skipped), no auth, maxConcurrency unset, allowOverlapScans, delta
\*      detection
ConfScrape ==
    [sources |-> <<"a", "b">>,
     allowOverlapScans |-> FALSE,
     defaultSourceConcurrency |-> 1,
     maxGlobalConcurrency |-> 1,
     enableAdminApi |-> TRUE,
     terminateGracefully |-> TRUE,
     enforceTls |-> TRUE,
     backend |-> "sqlite",
     maxEntriesPerSource |-> 2,
     defaultTtlSeconds |-> 2,
     source |->
       [s \in Sources |->
          IF s = "a"
          THEN [type |-> "range", frequency |-> 1, parallelWindow |-> None,
                firstScrapeStart |-> None, runFirstScrape |-> TRUE,
                allowOverlapScans |-> FALSE, maxConcurrency |-> Some(2),
                auth |-> "oauth", deltaDetection |-> FALSE,
                ttlSeconds |-> None, scheme |-> "https", dataKey |-> TRUE,
                mappings |->
                  [gaugeReadings |-> <<<<"value">>>>,
                   counterReadings |-> <<>>,
                   histogramReadings |-> <<>>,
                   attributes |-> <<<<"$root", "region">>>>,
                   logStatusField |-> None]]
          ELSE [type |-> "range", frequency |-> 1, parallelWindow |-> Some(1),
                firstScrapeStart |-> None, runFirstScrape |-> FALSE,
                allowOverlapScans |-> TRUE, maxConcurrency |-> None,
                auth |-> "none", deltaDetection |-> TRUE,
                ttlSeconds |-> None, scheme |-> "https", dataKey |-> FALSE,
                mappings |->
                  [gaugeReadings |-> <<>>,
                   counterReadings |-> <<<<"count">>>>,
                   histogramReadings |-> <<>>,
                   attributes |-> <<<<"$root">>>>,
                   logStatusField |-> Some(<<"level">>)]]]]

Init ==
    /\ conf = ConfScrape
    /\ clock = 0
    /\ alive = TRUE
    /\ kicked = FALSE
    /\ nTicks = 0
    /\ ticks = [t \in TickIds |-> IdleTick]
    /\ lastSuccess = [s \in Sources |-> None]
    /\ source_semaphores = [s \in Sources |-> None]
    /\ gwSem = ConfScrape.maxGlobalConcurrency
    /\ covered = [s \in Sources |-> {}]
    /\ firstPlanned = [s \in Sources |-> None]
    /\ overlapped = [s \in Sources |-> FALSE]
    /\ issued = [s \in Sources |-> None]
    /\ DedupIdle

\* ------------------------------------------------------------------------
\* Triggers
\* ------------------------------------------------------------------------
\* runner.async_main: engine_scheduler.start(); run_all_once() gathers one
\* scrape_source per source
RunAllOnce ==
    /\ alive /\ ~kicked
    /\ nTicks + Len(SourceList) <= MaxRuns
    /\ kicked' = TRUE
    /\ nTicks' = nTicks + Len(SourceList)
    /\ ticks' = [t \in TickIds |->
                    IF t > nTicks /\ t <= nTicks + Len(SourceList)
                    THEN NewTick(SourceList[t - nTicks], "kick", clock)
                    ELSE ticks[t]]
    /\ UNCHANGED <<conf, clock, alive, lastSuccess, source_semaphores, gwSem,
                   covered, firstPlanned, overlapped, issued, dedupVars, callVars,
                   storeVars, procVars>>

Launch(s, origin) ==
    /\ nTicks < MaxRuns
    /\ nTicks' = nTicks + 1
    /\ ticks' = [ticks EXCEPT ![nTicks + 1] = NewTick(s, origin, clock)]
    /\ overlapped' = [overlapped EXCEPT ![s] = @ \/ Running(s) # {}]
    /\ UNCHANGED <<conf, clock, alive, kicked, lastSuccess, source_semaphores, gwSem,
                   covered, firstPlanned, issued, dedupVars, callVars,
                   storeVars, procVars>>

\* the interval trigger of the source's job fires; APScheduler skips the run
\* when max_instances of the job are already running
SchedFire(s) ==
    /\ alive /\ kicked
    /\ clock >= Frequency(s)
    /\ Cardinality({t \in Running(s) : ticks[t].origin = "sched"}) < MaxInstances(s)
    /\ Launch(s, "sched")

\* admin_api.run_source: POST /sources/{name}/scrape
AdminTrigger(s) ==
    /\ alive /\ kicked
    /\ EnableAdminApi
    /\ Launch(s, "admin")

AdvanceClock ==
    /\ alive /\ kicked
    /\ clock < MaxClock
    /\ clock' = clock + 1
    /\ UNCHANGED <<conf, engineVars, dedupVars, callVars,
                   storeVars, procVars>>

\* ------------------------------------------------------------------------
\* scrape_source
\* ------------------------------------------------------------------------
EngineUnchanged ==
    UNCHANGED <<conf, clock, kicked, nTicks, dedupVars, callVars,
                   storeVars, procVars>>

\* a stored text that is no ISO-8601 timestamp; a stored text t >= 0 is
\* the isoformat() of the instant t
Malformed == 0 - 1

\* datetime.fromisoformat(text): the instant, or ValueError
fromisoformat(text) ==
    IF text >= 0
    THEN [raised |-> FALSE, value |-> Some(text)]
    ELSE [raised |-> TRUE, value |-> None]

\* build_state_store takes the branches of build_store, on the same
\* configuration and the same valkey client class
StateStoreKind == fpStore.kind

\* get_last_success of the state store class in use, on what is stored for
\* the source: the value returned, or the exception raised
get_last_success(kind, stored) ==
    IF stored = None
    THEN [raised |-> FALSE, value |-> None]
    ELSE CASE kind = "sqlite" -> fromisoformat(stored[1])
           [] kind = "valkey" ->
                IF fromisoformat(stored[1]).raised
                THEN [raised |-> FALSE, value |-> None]
                ELSE fromisoformat(stored[1])
           [] kind = "memory" -> [raised |-> FALSE, value |-> stored]

\* get_last_success returns (or raises); then either the first-run skip, or
\* _compute_windows, build_auth_strategy, _source_semaphore and the gather
\* that creates one run_window task per window
Read(t, ok) ==
    /\ alive
    /\ ticks[t].pc = "read"
    /\ LET tk == ticks[t]
           s == tk.src
           got == get_last_success(StateStoreKind, lastSuccess[s])
           last_success == got.value
           windows == compute_windows(s, tk.start, last_success)
       IN  IF ~ok \/ got.raised
           THEN /\ ticks' = [ticks EXCEPT ![t] = Finally(tk, TRUE)]
                /\ alive' = Survives(tk, TRUE)
                /\ UNCHANGED <<source_semaphores, firstPlanned>>
           ELSE IF ShouldSkip(s, last_success)
           THEN /\ ticks' = [ticks EXCEPT ![t] =
                                [tk EXCEPT !.pc = "skipwrite", !.read = TRUE,
                                           !.last = last_success]]
                /\ UNCHANGED <<alive, source_semaphores, firstPlanned>>
           ELSE /\ ticks' = [ticks EXCEPT ![t] =
                                [tk EXCEPT !.pc = "gather",
                                           !.read = TRUE,
                                           !.last = last_success,
                                           !.windows =
                                               [i \in 1..Len(windows) |->
                                                   NewWindow(windows[i])]]]
                /\ source_semaphores' =
                       IF source_semaphores[s] = None
                       THEN [source_semaphores EXCEPT ![s] = Some(SourceLimit(s))]
                       ELSE source_semaphores
                /\ firstPlanned' =
                       IF firstPlanned[s] = None /\ windows # <<>> /\ windows[1] # None
                       THEN [firstPlanned EXCEPT ![s] = Some(windows[1][1])]
                       ELSE firstPlanned
                /\ UNCHANGED alive
    /\ UNCHANGED <<lastSuccess, gwSem, covered, overlapped, issued>>
    /\ EngineUnchanged

\* the first-run skip: set_last_success(start_time) returns (or raises),
\* then the finally block
SkipWrite(t, ok) ==
    /\ alive
    /\ ticks[t].pc = "skipwrite"
    /\ LET tk == ticks[t]
       IN  IF ok
           THEN /\ lastSuccess' = [lastSuccess EXCEPT ![tk.src] = Some(tk.start)]
                /\ ticks' = [ticks EXCEPT ![t] =
                                Finally([tk EXCEPT !.wrote = Some(tk.start),
                                                   !.writes = @ + 1], FALSE)]
                /\ UNCHANGED alive
           ELSE /\ ticks' = [ticks EXCEPT ![t] = Finally(tk, TRUE)]
                /\ alive' = Survives(tk, TRUE)
                /\ UNCHANGED lastSuccess
    /\ UNCHANGED <<source_semaphores, gwSem, covered, firstPlanned, overlapped, issued>>
    /\ EngineUnchanged

WindowUnchanged ==
    UNCHANGED <<alive, lastSuccess, covered, firstPlanned, overlapped, issued>>

\* run_window: "async with sem" gets a permit and _fetch_window starts
WindowAcquire(t, i) ==
    /\ alive
    /\ ticks[t].pc = "gather"
    /\ i \in WindowIds(ticks[t])
    /\ ticks[t].windows[i].pc = "wait_sem"
    /\ LET tk == ticks[t]
           s == tk.src
       IN  /\ source_semaphores[s][1] > 0
           /\ LET r == BeginFetch(tk, i, gwSem, clock)
              IN  /\ ticks' = [ticks EXCEPT ![t] = r.tick]
                  /\ gwSem' = r.gw
                  /\ source_semaphores' = SemAfter(s, r.tick, i, TRUE)
    /\ WindowUnchanged
    /\ EngineUnchanged

\* _get_token: a task that waited for the strategy lock gets it
LockAcquire(t, i) ==
    /\ alive
    /\ ticks[t].pc = "gather"
    /\ i \in WindowIds(ticks[t])
    /\ ticks[t].windows[i].pc = "wait_lock"
    /\ ticks[t].lock = 0
    /\ LET r == WithLock(ticks[t], i, gwSem, clock)
       IN  /\ ticks' = [ticks EXCEPT ![t] = r.tick]
           /\ gwSem' = r.gw
           /\ source_semaphores' = SemAfter(ticks[t].src, r.tick, i, FALSE)
    /\ WindowUnchanged
    /\ EngineUnchanged

\* the token endpoint answers: on success the token (and expiry) is cached,
\* the lock released and the data request attempted; a non-2xx answer raises
\* out of _fetch_window and run_window returns ([], True, None)
TokenResponse(t, i, ok, expires_in) ==
    /\ alive
    /\ ticks[t].pc = "gather"
    /\ i \in WindowIds(ticks[t])
    /\ ticks[t].windows[i].pc = "token"
    /\ LET tk == ticks[t]
           s == tk.src
       IN  IF ok
           THEN LET cached == [tk EXCEPT !.token = TRUE, !.tnow = 0,
                                         !.expiresAt =
                                             IF expires_in = None
                                             THEN @
                                             ELSE Some(tk.tnow + expires_in[1]),
                                         !.lock = 0]
                    r == Request(cached, i, gwSem)
                IN  /\ ticks' = [ticks EXCEPT ![t] = r.tick]
                    /\ gwSem' = r.gw
                    /\ source_semaphores' = SemAfter(s, r.tick, i, FALSE)
                    /\ issued' = [issued EXCEPT ![s] =
                                      Some([upto |-> nTicks,
                                            expiresAt |-> cached.expiresAt])]
           ELSE /\ expires_in = None
                /\ ticks' = [ticks EXCEPT ![t] =
                                FinishW([tk EXCEPT !.lock = 0, !.tnow = 0], i, 0, TRUE)]
                /\ source_semaphores' = [source_semaphores EXCEPT ![s] = Some(@[1] + 1)]
                /\ UNCHANGED <<gwSem, issued>>
    /\ UNCHANGED <<alive, lastSuccess, covered, firstPlanned, overlapped>>
    /\ EngineUnchanged

\* AsyncHttpClient.request: a task that waited for a gateway permit gets it
GatewayAcquire(t, i) ==
    /\ alive
    /\ ticks[t].pc = "gather"
    /\ i \in WindowIds(ticks[t])
    /\ ticks[t].windows[i].pc = "wait_gw"
    /\ gwSem > 0
    /\ LET r == ToRequest(ticks[t], i, gwSem)
       IN  /\ ticks' = [ticks EXCEPT ![t] = r.tick]
           /\ gwSem' = r.gw
    /\ UNCHANGED source_semaphores
    /\ WindowUnchanged
    /\ EngineUnchanged

\* the position of run_window and its result once its data request has
\* been answered. answer:
\*   "error"   transport error, non-2xx (raise_for_status) or undecodable body
\*   "object"  2xx with a JSON object
\*   "list"    2xx with a JSON list
\* A 2xx answer is checked for the shape `$root.` paths need, its records
\* are extracted and pipeline.run starts (and, without delta detection,
\* finishes: it never suspends then). ShapeMismatch and every other exception
\* make run_window return ([], True, None).
Answered(tk, i, answer, recs) ==
    LET s == tk.src
        got == [tk EXCEPT !.windows[i].payload =
                              IF answer = "error" THEN "none" ELSE answer]
        shape == ShapeCheck(s, answer)
        extracted == extract_records(s, answer)
    IN  IF answer = "error" \/ ~shape \/ extracted = "raise"
        THEN FinishW(got, i, 0, TRUE)
        ELSE IF DeltaDetectionEnabled(s)
        THEN [SetW(got, i, "pipe") EXCEPT !.piped = TRUE]
        ELSE [FinishW(got, i, IF extracted = "empty" THEN 0 ELSE recs, FALSE)
                 EXCEPT !.piped = TRUE]

\* the data request returns and the gateway permit is released
HttpResponse(t, i, answer, recs) ==
    /\ alive
    /\ ticks[t].pc = "gather"
    /\ i \in WindowIds(ticks[t])
    /\ ticks[t].windows[i].pc = "http"
    /\ gwSem' = gwSem + 1
    /\ LET tk == ticks[t]
           s == tk.src
           after == Answered(tk, i, answer, recs)
       IN  /\ recs = 0 \/ (after.windows[i].pc = "done" /\ after.windows[i].recs = recs)
           /\ ticks' = [ticks EXCEPT ![t] = after]
           /\ source_semaphores' = SemAfter(s, after, i, FALSE)
           /\ covered' = IF after.windows[i].pc = "done" /\ ~after.windows[i].err
                         THEN [covered EXCEPT ![s] = @ \cup {tk.windows[i].w}]
                         ELSE covered
    /\ UNCHANGED <<alive, lastSuccess, firstPlanned, overlapped, issued>>
    /\ EngineUnchanged

\* pipeline.run returns recs records (or a store call raised) and run_window
\* leaves "async with sem"
PipelineDone(t, i, ok, recs) ==
    /\ alive
    /\ ticks[t].pc = "gather"
    /\ i \in WindowIds(ticks[t])
    /\ ticks[t].windows[i].pc = "pipe"
    /\ LET tk == ticks[t]
           s == tk.src
       IN  /\ source_semaphores' = [source_semaphores EXCEPT ![s] = Some(@[1] + 1)]
           /\ IF ok
              THEN /\ ticks' = [ticks EXCEPT ![t] = FinishW(tk, i, recs, FALSE)]
                   /\ covered' = [covered EXCEPT ![s] = @ \cup {tk.windows[i].w}]
              ELSE /\ recs = 0
                   /\ ticks' = [ticks EXCEPT ![t] = FinishW(tk, i, 0, TRUE)]
                   /\ UNCHANGED covered
    /\ UNCHANGED <<alive, lastSuccess, gwSem, firstPlanned, overlapped, issued>>
    /\ EngineUnchanged

\* faulty variant of GatherDone: the first finished window ends the wait
GatherFirstDone(tk) == \E i \in WindowIds(tk) : tk.windows[i].pc = "done"

\* `await asyncio.gather(...)` returns: every run_window task has returned
GatherDone(tk) == \A i \in WindowIds(tk) : tk.windows[i].pc = "done"

\* faulty variant of telemetry_batches: nothing is emitted for a tick with a
\* failed window
telemetry_batches_if_clean(tk) ==
    IF \E i \in WindowIds(tk) : tk.windows[i].err
    THEN {}
    ELSE {i \in WindowIds(tk) : tk.windows[i].recs > 0}

\* scrape_source lines 110-117: the windows whose (records, raw_payload) go
\* to _emit_telemetry_async, those with a non-empty pipeline result
telemetry_batches(tk) == {i \in WindowIds(tk) : tk.windows[i].recs > 0}

\* the gather returns: results are aggregated, the emit task is created when
\* some window kept records, set_last_success(start_time) returns (or
\* raises), then the finally block
Commit(t, ok) ==
    /\ alive
    /\ ticks[t].pc = "gather"
    /\ GatherDone(ticks[t])
    /\ LET tk == ticks[t]
           had_errors == \E i \in WindowIds(tk) : tk.windows[i].err
           agg == [tk EXCEPT !.hadErrors = had_errors,
                             !.status = IF had_errors THEN "error" ELSE "success",
                             !.emits = IF telemetry_batches(tk) # {}
                                       THEN @ + 1 ELSE @,
                             !.batches = telemetry_batches(tk)]
           when == CommitValue(tk, clock)
       IN  IF ok
           THEN /\ lastSuccess' = [lastSuccess EXCEPT ![tk.src] = Some(when)]
                /\ ticks' = [ticks EXCEPT ![t] =
                                Finally([agg EXCEPT !.wrote = Some(when),
                                                    !.writes = @ + 1], FALSE)]
                /\ UNCHANGED alive
           ELSE /\ ticks' = [ticks EXCEPT ![t] = Finally(agg, TRUE)]
                /\ alive' = Survives(tk, TRUE)
                /\ UNCHANGED lastSuccess
    /\ UNCHANGED <<source_semaphores, gwSem, covered, firstPlanned, overlapped, issued>>
    /\ EngineUnchanged

Next ==
    \/ RunAllOnce
    \/ \E s \in Sources : SchedFire(s)
    \/ \E s \in Sources : AdminTrigger(s)
    \/ AdvanceClock
    \/ \E t \in TickIds, ok \in BOOLEAN : Read(t, ok)
    \/ \E t \in TickIds, ok \in BOOLEAN : SkipWrite(t, ok)
    \/ \E t \in TickIds, i \in 1..(MaxClock + 1) : WindowAcquire(t, i)
    \/ \E t \in TickIds, i \in 1..(MaxClock + 1), ok \in BOOLEAN,
          e \in {None} \cup {Some(x) : x \in ExpiresIn} :
            TokenResponse(t, i, ok, e)
    \/ \E t \in TickIds, i \in 1..(MaxClock + 1) : GatewayAcquire(t, i)
    \/ \E t \in TickIds, i \in 1..(MaxClock + 1),
          answer \in {"error", "object", "list"}, recs \in 0..MaxRecs :
            HttpResponse(t, i, answer, recs)
    \/ \E t \in TickIds, i \in 1..(MaxClock + 1), ok \in BOOLEAN, recs \in 0..MaxRecs :
            PipelineDone(t, i, ok, recs)
    \/ \E t \in TickIds, ok \in BOOLEAN : Commit(t, ok)

\* ------------------------------------------------------------------------
\* Derived quantities
\* ------------------------------------------------------------------------
\* the window tasks inside "async with sem" of source s, over all invocations
Holders(s) ==
    {<<t, i>> \in TickIds \X (1..(MaxClock + 1)) :
        /\ ticks[t].src = s
        /\ i \in WindowIds(ticks[t])
        /\ ticks[t].windows[i].pc \in {"wait_lock", "token", "wait_gw", "http", "pipe"}}

Waiters(s) ==
    {<<t, i>> \in TickIds \X (1..(MaxClock + 1)) :
        /\ ticks[t].src = s
        /\ i \in WindowIds(ticks[t])
        /\ ticks[t].windows[i].pc = "wait_sem"}

\* outbound HTTP requests in flight: data requests and token requests
InFlight ==
    {<<t, i>> \in TickIds \X (1..(MaxClock + 1)) :
        /\ i \in WindowIds(ticks[t])
        /\ ticks[t].windows[i].pc \in {"http", "token"}}

OverlapAllowed(s) == ScraperAllowOverlapScans \/ SourceAllowOverlapScans(s)

\* the tick that finishes in this step
Finishing(t) == ticks[t].pc \notin {"idle", "done"} /\ ticks'[t].pc = "done"

\* ------------------------------------------------------------------------
\* Claims about the scrape loop (specification Spec)
\* ------------------------------------------------------------------------

\* C1: a tick with an errored window does not write last-success.
\* (The claim as stated; scrape_source writes it unconditionally.)
C1_NoWriteAfterWindowError ==
    \A t \in TickIds :
        ticks[t].pc = "done" /\ ticks[t].hadErrors => ticks[t].wrote = None

\* C2: at-least-once range coverage. For a source whose invocations never
\* overlapped, every clock unit between the start of the first planned window
\* and the stored watermark lies in a window that was fetched and processed
\* without error. (The claim as stated.)
C2_RangeCoverage ==
    \A s \in Sources :
        ~overlapped[s] /\ firstPlanned[s] # None /\ lastSuccess[s] # None =>
            \A x \in firstPlanned[s][1]..(lastSuccess[s][1] - 1) :
                \E w \in covered[s] : w[1] <= x /\ x + 1 <= w[2]

\* C3: scrape_source never raises to its caller. (The claim as stated.)
C3_NeverRaises == \A t \in TickIds : ~ticks[t].raised

\* C4: with runFirstScrape=false and no stored watermark the tick issues no
\* HTTP request, runs no pipeline, plans no window, writes last-success =
\* its start time exactly once and is recorded as success; a tick that finds
\* a watermark plans its range from that watermark.
C4_FirstRunSkip ==
    \A t \in TickIds :
        LET tk == ticks[t] IN
        /\ tk.read /\ tk.last = None /\ ~RunFirstScrape(tk.src) =>
              /\ ~tk.fetched /\ ~tk.piped /\ tk.windows = <<>>
              /\ tk.pc \in {"skipwrite", "done"}
              /\ tk.status = "success"
              /\ tk.pc = "done" =>
                    /\ tk.recorded = Some("success")
                    /\ tk.raised \/ (tk.writes = 1 /\ tk.wrote = Some(tk.start))
        /\ tk.pc = "gather" /\ tk.last # None /\ tk.windows # <<>> =>
              tk.windows[1].w[1] = tk.last[1]

\* a skipped first tick has finished and a later tick of the source has
\* planned its windows from the watermark the skipped tick wrote
C4_Witness ==
    \E t, u \in TickIds :
        /\ ticks[t].pc = "done" /\ ticks[t].read /\ ticks[t].last = None
        /\ ~RunFirstScrape(ticks[t].src) /\ ~ticks[t].raised
        /\ ticks[u].src = ticks[t].src /\ ticks[u].pc = "gather"
        /\ ticks[u].last = Some(ticks[t].start)
        /\ ticks[u].windows # <<>>

\* every write of last-success stores the start time of the tick that
\* finishes in that step
WritesOwnStart(s) ==
    lastSuccess'[s] # lastSuccess[s] =>
        \E t \in TickIds :
            Finishing(t) /\ ticks[t].src = s /\ lastSuccess'[s] = Some(ticks[t].start)

NeverDecreases(s) ==
    lastSuccess[s] # None =>
        lastSuccess'[s] # None /\ lastSuccess'[s][1] >= lastSuccess[s][1]

\* C5 as stated: every write stores the writing tick's start time and the
\* stored last-success of a source never decreases.
C5_MonotoneWatermark ==
    [][\A s \in Sources : WritesOwnStart(s) /\ NeverDecreases(s)]_vars

\* C5 amended: every write stores the writing tick's start time, and the
\* stored last-success never decreases for a source none of whose
\* scrape_source executions overlapped another one of that source.
C5_MonotoneWithoutOverlap ==
    [][\A s \in Sources :
          WritesOwnStart(s) /\ (~overlapped'[s] => NeverDecreases(s))]_vars

\* two ticks of a source ran one after the other and the second moved the
\* watermark from the first one's start time to its own, later one
C5_Witness ==
    \E s \in Sources : \E t, u \in TickIds :
        /\ ~overlapped[s]
        /\ ticks[t].src = s /\ ticks[u].src = s
        /\ ticks[t].pc = "done" /\ ticks[u].pc = "done"
        /\ ticks[t].wrote # None /\ ticks[u].wrote # None
        /\ ticks[t].wrote[1] < ticks[u].wrote[1]
        /\ lastSuccess[s] = ticks[u].wrote

\* C6: unless allowOverlapScans is set, at most one scrape_source execution
\* of a source is in progress. (The claim as stated.)
C6_NoOverlap ==
    \A s \in Sources : ~OverlapAllowed(s) => Cardinality(Running(s)) <= 1

\* C7 as stated: the windows of a source holding its semaphore number at
\* most min(maxConcurrency, defaultSourceConcurrency), and at most
\* defaultSourceConcurrency when maxConcurrency is unset.
C7_HoldersWithinMin ==
    \A s \in Sources :
        Cardinality(Holders(s)) <=
            IF MaxConcurrency(s) # None
            THEN Min(MaxConcurrency(s)[1], DefaultSourceConcurrency)
            ELSE DefaultSourceConcurrency

\* C7 amended: the windows of a source holding its semaphore, over all of
\* its ticks, number at most maxConcurrency when it is set and at most
\* defaultSourceConcurrency when it is unset.
C7_HoldersWithinLimit ==
    \A s \in Sources :
        Cardinality(Holders(s)) <=
            IF MaxConcurrency(s) # None
            THEN MaxConcurrency(s)[1]
            ELSE DefaultSourceConcurrency

\* the semaphore of a source is exhausted while another window waits for it
C7_Witness ==
    \E s \in Sources :
        /\ source_semaphores[s] = Some(0)
        /\ Holders(s) # {}
        /\ Waiters(s) # {}

\* C8: the outbound HTTP requests in flight, data and token requests alike,
\* number at most maxGlobalConcurrency. (The claim as stated.)
C8_InFlightWithinGlobal == Cardinality(InFlight) <= MaxGlobalConcurrency

\* every window was handed to _fetch_window at most once and had at most one
\* data request sent; a finished one exactly one call, and exactly one
\* request when it succeeded
FetchedOnce(tk) ==
    \A i \in WindowIds(tk) :
        LET w == tk.windows[i] IN
        /\ w.calls <= 1 /\ w.reqs <= w.calls
        /\ w.pc = "wait_sem" => w.calls = 0
        /\ w.pc = "done" => w.calls = 1
        /\ w.pc = "done" /\ ~w.err => w.reqs = 1

\* the step in which scrape_source of tick t leaves the gather, aggregates,
\* commits and ends
CommitStep(t) == ticks[t].pc = "gather" /\ ticks'[t].pc = "done"

\* C11: within a tick every planned window is fetched exactly once, whatever
\* happens to the other windows of the tick, and the tick aggregates and
\* reaches the commit step only when all of its windows have finished.
C11_WindowsOnceThenCommit ==
    [][\A t \in TickIds :
          /\ FetchedOnce(ticks[t])
          /\ CommitStep(t) =>
                \A i \in WindowIds(ticks[t]) :
                    /\ ticks[t].windows[i].pc = "done"
                    /\ ticks[t].windows[i].calls = 1]_vars

\* a tick with several windows, some failed and some not, all of them
\* finished after one call each, is about to commit
C11_Witness ==
    \E t \in TickIds :
        LET tk == ticks[t] IN
        /\ tk.pc = "gather" /\ Len(tk.windows) >= 2
        /\ \A i \in WindowIds(tk) :
              tk.windows[i].pc = "done" /\ tk.windows[i].calls = 1
        /\ \E i, j \in WindowIds(tk) :
              /\ tk.windows[i].err
              /\ ~tk.windows[j].err /\ tk.windows[j].reqs = 1

\* C12: when some windows of a tick fail and others succeed with a non-empty
\* pipeline result, the records of the succeeding windows are handed to the
\* emitter in that tick, in one hand-off, and the tick is recorded as error.
C12_SurvivorsEmitted ==
    [][\A t \in TickIds :
          LET tk == ticks[t]
              survivors == {i \in WindowIds(tk) :
                               ~tk.windows[i].err /\ tk.windows[i].recs > 0}
          IN  (/\ CommitStep(t)
               /\ \E i \in WindowIds(tk) : tk.windows[i].err
               /\ survivors # {})
              => /\ ticks'[t].batches = survivors
                 /\ ticks'[t].emits = 1
                 /\ ticks'[t].status = "error"
                 /\ ticks'[t].recorded = Some("error")]_vars

\* a finished tick with a failed window whose other windows' records were
\* handed to the emitter
C12_Witness ==
    \E t \in TickIds :
        /\ ticks[t].pc = "done" /\ ticks[t].hadErrors
        /\ ticks[t].batches # {} /\ ticks[t].emits = 1
        /\ ticks[t].recorded = Some("error")

\* C14: when a mapping path of the source starts with `$root.` and the decoded
\* payload is not an object, the window fails with ShapeMismatch before the
\* records are extracted and before the pipeline runs: none of its records
\* is fingerprinted or emitted, and the tick does not advance the watermark.
\* (The claim as stated; scrape_source writes the watermark unconditionally.)
C14_RootShapeMismatch ==
    [][\A t \in TickIds : \A i \in WindowIds(ticks[t]) :
          LET tk == ticks[t]
              w == tk.windows[i]
          IN  (uses_root_payload(tk.src) /\ w.payload = "list") =>
                 /\ w.pc = "done" /\ w.err /\ w.recs = 0
                 /\ CommitStep(t) =>
                       /\ i \notin ticks'[t].batches
                       /\ lastSuccess'[tk.src] = lastSuccess[tk.src]]_vars

\* In ConfScrape every auth strategy serves one window, so no task ever waits
\* for the strategy lock and LockAcquire is not part of Next.
Spec == Init /\ [][Next]_vars

\* ------------------------------------------------------------------------
\* The scrape loop with a plaintext source under enforceTls
\* ------------------------------------------------------------------------
\* ConfScrape with the URL of source b plaintext (http://) and the delta
\* detection moved from b to a
ConfTls ==
    [ConfScrape EXCEPT !.source["b"].scheme = "http",
                       !.source["b"].deltaDetection = FALSE,
                       !.source["a"].deltaDetection = TRUE]

InitTls ==
    /\ conf = ConfTls
    /\ clock = 0
    /\ alive = TRUE
    /\ kicked = FALSE
    /\ nTicks = 0
    /\ ticks = [t \in TickIds |-> IdleTick]
    /\ lastSuccess = [s \in Sources |-> None]
    /\ source_semaphores = [s \in Sources |-> None]
    /\ gwSem = ConfTls.maxGlobalConcurrency
    /\ covered = [s \in Sources |-> {}]
    /\ firstPlanned = [s \in Sources |-> None]
    /\ overlapped = [s \in Sources |-> FALSE]
    /\ issued = [s \in Sources |-> None]
    /\ DedupIdle

SpecTls == InitTls /\ [][Next]_vars

\* C13: with enforceTls=true a gateway request to a plaintext http:// URL
\* raises before any request is sent and without a gateway permit being
\* taken or waited for; the window is recorded as errored and the tick's
\* status is error.
C13_PlaintextRejected ==
    [][\A t \in TickIds :
          LET tk == ticks'[t] IN
          (EnforceTls /\ tk.src \in Sources /\ UrlScheme(tk.src) = "http") =>
             /\ \A i \in WindowIds(tk) :
                   /\ tk.windows[i].reqs = 0
                   /\ tk.windows[i].pc \in {"wait_sem", "done"}
                   /\ tk.windows[i].pc = "done" => tk.windows[i].err
             /\ (CommitStep(t) /\ ticks[t].windows # <<>>) =>
                   /\ tk.hadErrors
                   /\ tk.status = "error"
                   /\ tk.recorded = Some("error")]_vars

\* a tick of the plaintext source has finished: its windows were planned,
\* no request was sent for it and it is recorded as error
C13_Witness ==
    \E t \in TickIds :
        /\ EnforceTls /\ ticks[t].src \in Sources
        /\ UrlScheme(ticks[t].src) = "http"
        /\ ticks[t].pc = "done" /\ ticks[t].hadErrors /\ ~ticks[t].fetched
        /\ ticks[t].recorded = Some("error")

\* ------------------------------------------------------------------------
\* Delta detection: RecordPipeline._apply_delta_detection on the
\* SqliteFingerprintStore (the default backend)
\* ------------------------------------------------------------------------
\* compute_hash(fingerprint_payload(record, keys, source.name)) of the records
Hashes == {"X", "Y"}

RunIds == 1..MaxPipelineRuns

\* the record batches (after filters and limits) a run receives, as hashes
Batches == UNION {[1..n -> Hashes] : n \in 1..MaxBatch}

\* fingerprintStore.maxEntriesPerSource values of the specification
Capacities == {1, 2}

DedupUnchanged == UNCHANGED <<conf, clock, engineVars, callVars, storeVars, procVars>>

RowsOf(fp, h, s) == {row \in fp : row.hash = h /\ row.source = s}

\* faulty variant of Expired: an entry at exactly its TTL counts as expired
ExpiredAtTtl(last_seen, now, ttl) == now - last_seen >= ttl

\* contains: `now - last_seen > effective_ttl`
Expired(last_seen, now, ttl) == now - last_seen > ttl

\* contains: `effective_ttl = row_ttl or ttl_seconds`
EffectiveTtl(row_ttl, ttl_seconds) == IF row_ttl # 0 THEN row_ttl ELSE ttl_seconds

\* faulty variant of contains: the expired row is left in the table
contains_keeping(fp, h, s, ttl_seconds, now) ==
    LET rows == RowsOf(fp, h, s) IN
    IF rows = {}
    THEN [hit |-> FALSE, store |-> fp, expired |-> FALSE]
    ELSE LET row == CHOOSE x \in rows : TRUE IN
         IF Expired(row.last_seen, now, EffectiveTtl(row.ttl, ttl_seconds))
         THEN [hit |-> FALSE, store |-> fp, expired |-> TRUE]
         ELSE [hit |-> TRUE, store |-> fp, expired |-> FALSE]

\* SqliteFingerprintStore.contains, under the lock: the answer, the store
\* after the inline delete of an expired row, and whether a row was deleted
contains(fp, h, s, ttl_seconds, now) ==
    LET rows == RowsOf(fp, h, s) IN
    IF rows = {}
    THEN [hit |-> FALSE, store |-> fp, expired |-> FALSE]
    ELSE LET row == CHOOSE x \in rows : TRUE IN
         IF Expired(row.last_seen, now, EffectiveTtl(row.ttl, ttl_seconds))
         THEN [hit |-> FALSE, store |-> fp \ rows, expired |-> TRUE]
         ELSE [hit |-> TRUE, store |-> fp, expired |-> FALSE]

\* touch: INSERT ... ON CONFLICT(hash, source) DO UPDATE SET last_seen, ttl
Upsert(fp, h, s, now, ttl_seconds) ==
    LET rows == RowsOf(fp, h, s) IN
    IF rows = {}
    THEN fp \cup {[hash |-> h, source |-> s, first_seen |-> now,
                   last_seen |-> now, ttl |-> ttl_seconds]}
    ELSE (fp \ rows) \cup
         {[row EXCEPT !.last_seen = now, !.ttl = ttl_seconds] : row \in rows}

\* _enforce_capacity: the sets of rows `DELETE ... ORDER BY last_seen ASC
\* LIMIT overflow` may remove; rows with equal last_seen come in any order
Victims(fp, s) ==
    LET mine == {row \in fp : row.source = s}
        overflow == Cardinality(mine) - MaxEntriesPerSource
    IN  IF overflow <= 0
        THEN {{}}
        ELSE {V \in SUBSET mine :
                /\ Cardinality(V) = overflow
                /\ \A v \in V, w \in mine \ V : v.last_seen <= w.last_seen}

\* data model: an entry with lastSeen + ttl < now is logically absent
LogicallyAbsent(fp, h, s, now) ==
    \A row \in RowsOf(fp, h, s) : row.last_seen + row.ttl < now

\* pipeline.last_stats after a step of a pipeline run: set on entry of run
\* (line 45: nothing counted yet) and when _apply_delta_detection returns
\* (lines 116 and 132)
StatsAfter(stats, before, after) ==
    IF after.pc = "done"
    THEN [hits |-> Len(after.input) - Len(after.kept),
          misses |-> Len(after.kept),
          total |-> Len(after.input)]
    ELSE IF before.pc = "idle"
    THEN [hits |-> 0, misses |-> 0, total |-> Len(after.input)]
    ELSE stats

IdleRun(s, k, batch) ==
    [pc |-> "idle", op |-> "contains", src |-> s, tick |-> k, input |-> batch,
     idx |-> 0, now |-> 0, absent |-> FALSE, kept |-> <<>>]

\* a store call of run r: `now` is read, then `async with self._lock`, which
\* is taken at once when the lock is free and nobody waits, else queued
Call(rn, r, op, holder, waiters) ==
    IF holder = 0 /\ waiters = <<>>
    THEN [run |-> [rn EXCEPT !.pc = "io", !.op = op, !.now = clock],
          holder |-> r, waiters |-> waiters]
    ELSE [run |-> [rn EXCEPT !.pc = "wait", !.op = op, !.now = clock],
          holder |-> holder, waiters |-> Append(waiters, r)]

\* the loop of _apply_delta_detection: contains for the next record, or return
NextRecord(rn, r, holder, waiters) ==
    IF rn.idx < Len(rn.input)
    THEN Call([rn EXCEPT !.idx = @ + 1], r, "contains", holder, waiters)
    ELSE [run |-> [rn EXCEPT !.pc = "done"], holder |-> holder,
          waiters |-> waiters]

ActiveRuns(s) == {r \in RunIds : runs[r].src = s /\ runs[r].pc \in {"wait", "io"}}

\* what a tick finds, when it ends, of a fingerprint it kept
AtEnd(h, s) ==
    IF contains(fingerprints, h, s, Ttl(s), clock).hit THEN "present"
    ELSE IF \/ RowsOf(fingerprints, h, s) # {}
            \/ [hash |-> h, source |-> s, why |-> "expired"] \in removed
         THEN "expired"
    ELSE IF [hash |-> h, source |-> s, why |-> "capacity"] \in removed
         THEN "evicted"
    ELSE "missing"

\* The configuration of the delta-detection specification: source a with
\* delta detection, ttlSeconds of one clock unit and two windows at a time;
\* source b without delta detection
ConfDedup(cap) ==
    [ConfScrape EXCEPT !.maxEntriesPerSource = cap,
                       !.source["a"].deltaDetection = TRUE,
                       !.source["a"].ttlSeconds = Some(1),
                       !.source["b"].deltaDetection = FALSE]

\* The engine has started; MaxPipelineRuns windows are about to hand their
\* batch to pipeline.run, for one tick or for several
InitDedup ==
    /\ \E cap \in Capacities : conf = ConfDedup(cap)
    /\ clock = 0
    /\ alive = TRUE
    /\ kicked = TRUE
    /\ nTicks = 0
    /\ ticks = [t \in TickIds |-> IdleTick]
    /\ lastSuccess = [s \in Sources |-> None]
    /\ source_semaphores = [s \in Sources |-> None]
    /\ gwSem = ConfScrape.maxGlobalConcurrency
    /\ covered = [s \in Sources |-> {}]
    /\ firstPlanned = [s \in Sources |-> None]
    /\ overlapped = [s \in Sources |-> FALSE]
    /\ issued = [s \in Sources |-> None]
    /\ fnArgs = None
    /\ fnResult = None
    /\ fpStore = NewStore(build_store("sqlite", TRUE))
    /\ ProcIdle
    /\ fingerprints = {}
    /\ fpLock = 0
    /\ fpWaiters = <<>>
    /\ runs \in [RunIds -> {IdleRun(s, k, b) :
                              s \in Sources, k \in RunIds, b \in Batches}]
    /\ \A r \in RunIds : runs[r].tick <= r
    /\ runs[1].src = "a"
    /\ keptLog = {}
    /\ removed = {}
    /\ tickEnded = {}
    /\ StatsIdle

\* run_window calls pipeline.run under the per-source semaphore; without
\* delta detection the batch is returned as it is, else the loop calls
\* contains for the first record
StartRun(r) ==
    /\ runs[r].pc = "idle"
    /\ runs[r].tick \notin tickEnded
    /\ Cardinality(ActiveRuns(runs[r].src)) < SourceLimit(runs[r].src)
    /\ IF ~DeltaDetectionEnabled(runs[r].src)
       THEN /\ runs' = [runs EXCEPT ![r] = [runs[r] EXCEPT
                                                !.pc = "done",
                                                !.kept = runs[r].input]]
            /\ UNCHANGED <<fpLock, fpWaiters>>
       ELSE LET c == NextRecord(runs[r], r, fpLock, fpWaiters) IN
            /\ runs' = [runs EXCEPT ![r] = c.run]
            /\ fpLock' = c.holder
            /\ fpWaiters' = c.waiters
    /\ last_stats' = StatsAfter(last_stats, runs[r], runs'[r])
    /\ UNCHANGED <<fingerprints, keptLog, removed, tickEnded, dedupe>>
    /\ DedupUnchanged

\* asyncio.Lock: the first waiter, woken by the release, takes the lock
LockGranted(r) ==
    /\ runs[r].pc = "wait"
    /\ fpLock = 0
    /\ fpWaiters # <<>>
    /\ Head(fpWaiters) = r
    /\ fpLock' = r
    /\ fpWaiters' = Tail(fpWaiters)
    /\ runs' = [runs EXCEPT ![r].pc = "io"]
    /\ UNCHANGED <<fingerprints, keptLog, removed, tickEnded, last_stats, dedupe>>
    /\ DedupUnchanged

\* contains returns and releases the lock: on a hit the loop goes on to the
\* next record, on a miss it calls touch
ContainsDone(r) ==
    /\ runs[r].pc = "io" /\ runs[r].op = "contains"
    /\ fpLock = r
    /\ LET rn == runs[r]
           h == rn.input[rn.idx]
           res == contains(fingerprints, h, rn.src, Ttl(rn.src), rn.now)
           absent == LogicallyAbsent(fingerprints, h, rn.src, clock)
           c == IF res.hit
                THEN NextRecord(rn, r, 0, fpWaiters)
                ELSE Call([rn EXCEPT !.absent = absent], r, "touch", 0,
                          fpWaiters)
       IN  /\ fingerprints' = res.store
           /\ removed' = IF res.expired
                         THEN removed \cup {[hash |-> h, source |-> rn.src,
                                             why |-> "expired"]}
                         ELSE removed
           /\ runs' = [runs EXCEPT ![r] = c.run]
           /\ fpLock' = c.holder
           /\ fpWaiters' = c.waiters
    /\ last_stats' = StatsAfter(last_stats, runs[r], runs'[r])
    /\ UNCHANGED <<keptLog, tickEnded, dedupe>>
    /\ DedupUnchanged

\* touch returns and releases the lock: the row is upserted, the capacity
\* enforced; the record is kept and the loop goes on to the next record
TouchDone(r) ==
    /\ runs[r].pc = "io" /\ runs[r].op = "touch"
    /\ fpLock = r
    /\ LET rn == runs[r]
           h == rn.input[rn.idx]
           up == Upsert(fingerprints, h, rn.src, rn.now, Ttl(rn.src))
           c == NextRecord([rn EXCEPT !.kept = Append(@, h)], r, 0, fpWaiters)
       IN  /\ \E V \in Victims(up, rn.src) :
                /\ fingerprints' = up \ V
                /\ removed' =
                     {x \in removed : ~(x.hash = h /\ x.source = rn.src)}
                     \cup {[hash |-> v.hash, source |-> v.source,
                            why |-> "capacity"] : v \in V}
           /\ keptLog' = keptLog \cup
                {[hash |-> h, source |-> rn.src, tick |-> rn.tick, run |-> r,
                  idx |-> rn.idx, at |-> rn.now, absent |-> rn.absent,
                  atEnd |-> "running"]}
           /\ runs' = [runs EXCEPT ![r] = c.run]
           /\ fpLock' = c.holder
           /\ fpWaiters' = c.waiters
    /\ last_stats' = StatsAfter(last_stats, runs[r], runs'[r])
    /\ UNCHANGED <<tickEnded, dedupe>>
    /\ DedupUnchanged

\* the scrape_source of tick k ends, all its windows having returned: the
\* finally block reads pipeline.last_stats and calls record_dedupe with it
TickEnd(k) ==
    /\ k \notin tickEnded
    /\ \E r \in RunIds : runs[r].tick = k
    /\ \A r \in RunIds : runs[r].tick = k => runs[r].pc = "done"
    /\ tickEnded' = tickEnded \cup {k}
    /\ keptLog' = {IF e.tick = k
                   THEN [e EXCEPT !.atEnd = AtEnd(e.hash, e.source)]
                   ELSE e : e \in keptLog}
    /\ dedupe' = [dedupe EXCEPT ![k] = Some(last_stats)]
    /\ UNCHANGED <<fingerprints, fpLock, fpWaiters, runs, removed, last_stats>>
    /\ DedupUnchanged

NextDedup ==
    \/ AdvanceClock
    \/ \E r \in RunIds : StartRun(r)
    \/ \E r \in RunIds : LockGranted(r)
    \/ \E r \in RunIds : ContainsDone(r)
    \/ \E r \in RunIds : TouchDone(r)
    \/ \E k \in RunIds : TickEnd(k)

SpecDedup == InitDedup /\ [][NextDedup]_vars

\* ------------------------------------------------------------------------
\* Delta-detection claims
\* ------------------------------------------------------------------------
\* the store never has to evict: one row per distinct fingerprint fits
AmpleCapacity == MaxEntriesPerSource >= Cardinality(Hashes)

\* C9: of the fingerprint-equal records of one source that pipeline runs
\* process within the TTL (in one batch, in concurrent windows of a tick, in
\* overlapping ticks) exactly one is kept, whatever the interleaving of the
\* runs' contains and touch calls: no two kept records of a source carry the
\* same fingerprint with touch times at most ttl apart (stated for a store
\* that never evicts).
C9_OneKeptWithinTtl ==
    AmpleCapacity =>
      \A e1 \in keptLog, e2 \in keptLog :
         (/\ e1.hash = e2.hash
          /\ e1.source = e2.source
          /\ <<e1.run, e1.idx>> # <<e2.run, e2.idx>>)
         => (e1.at - e2.at > Ttl(e1.source) \/ e2.at - e1.at > Ttl(e1.source))

\* C10 (as stated): with delta detection, every record pipeline.run returned
\* had its fingerprint absent or expired in the store when it was consulted,
\* and present in the store (contains would answer true) when its tick ends.
C10_AbsentThenPresent ==
    \A e \in keptLog :
       e.atEnd # "running" => (e.absent /\ e.atEnd = "present")

\* C10 (amended): with delta detection, every record pipeline.run returned
\* had its fingerprint absent or expired in the store when it was consulted;
\* when its tick ends the fingerprint is present in the store unless the
\* capacity enforcement of a touch (its own or a later one) evicted it or
\* its TTL has elapsed since it was touched.
C10_AbsentThenPresentOrEvicted ==
    \A e \in keptLog :
       /\ e.absent
       /\ e.atEnd \in {"running", "present", "evicted", "expired"}

\* a kept record whose fingerprint a capacity eviction had removed by the
\* end of its tick
C10_Witness ==
    \E e \in keptLog : e.absent /\ e.atEnd = "evicted"

\* ------------------------------------------------------------------------
\* utils.window_slices as _compute_windows calls it
\* ------------------------------------------------------------------------
\* everything but the call under study is as constructed and stays so
RestIdle ==
    /\ conf = ConfScrape
    /\ clock = 0
    /\ alive = TRUE
    /\ kicked = FALSE
    /\ nTicks = 0
    /\ ticks = [t \in TickIds |-> IdleTick]
    /\ lastSuccess = [s \in Sources |-> None]
    /\ source_semaphores = [s \in Sources |-> None]
    /\ gwSem = ConfScrape.maxGlobalConcurrency
    /\ covered = [s \in Sources |-> {}]
    /\ firstPlanned = [s \in Sources |-> None]
    /\ overlapped = [s \in Sources |-> FALSE]
    /\ issued = [s \in Sources |-> None]
    /\ fpStore = NewStore(build_store("sqlite", TRUE))
    /\ ProcIdle
    /\ fingerprints = {}
    /\ fpLock = 0
    /\ fpWaiters = <<>>
    /\ runs = <<>>
    /\ keptLog = {}
    /\ removed = {}
    /\ tickEnded = {}
    /\ StatsIdle

InitSlices ==
    /\ RestIdle
    /\ fnArgs \in [start : 0..MaxTime, end : 0..MaxTime, delta : 1..MaxDelta]
    /\ fnResult = None

\* window_slices(start_time, end_time, delta) returns
Slice ==
    /\ fnResult = None
    /\ fnResult' = Some(window_slices(fnArgs.start, fnArgs.end, fnArgs.delta))
    /\ UNCHANGED <<conf, clock, engineVars, dedupVars, fnArgs, storeVars, procVars>>

NextSlices == Slice

SpecSlices == InitSlices /\ [][NextSlices]_vars

\* C15: for start < end and delta > 0 the planned sub-windows are ordered and
\* contiguous: the first starts at start, each window ends where the next
\* starts, every window is longer than 0 and at most delta long, only the
\* last may be shorter than delta, the last ends at end; a range of 5 with a
\* delta of 1 yields exactly 5 windows.
C15_ContiguousSlices ==
    (fnResult # None /\ fnArgs.start < fnArgs.end /\ fnArgs.delta > 0) =>
        LET ws == fnResult[1]
            n == Len(ws)
        IN  /\ n >= 1
            /\ ws[1][1] = fnArgs.start
            /\ ws[n][2] = fnArgs.end
            /\ \A i \in 1..n :
                  /\ ws[i][1] < ws[i][2]
                  /\ ws[i][2] - ws[i][1] <= fnArgs.delta
                  /\ i < n => /\ ws[i][2] = ws[i + 1][1]
                              /\ ws[i][2] - ws[i][1] = fnArgs.delta
            /\ (fnArgs.end - fnArgs.start = 5 /\ fnArgs.delta = 1) => n = 5

\* a range of 5 was cut with a delta of 2: three windows, the last one shorter
C15_Witness ==
    /\ fnResult # None
    /\ fnArgs.end - fnArgs.start = 5 /\ fnArgs.delta = 2
    /\ Len(fnResult[1]) = 3
    /\ fnResult[1][3][2] - fnResult[1][3][1] = 1

\* ------------------------------------------------------------------------
\* The fingerprint store contract: touch, contains and cleanup of the three
\* store classes, called one after the other, across restarts of the process
\* ------------------------------------------------------------------------
\* the clock of this specification counts ticks of 1/TicksPerSecond second
TicksPerSecond == 2

MaxStoreClock == 4

\* fingerprintStore.maxEntriesPerSource values (the field is a plain int)
StoreCapacities == {0, 1, 2}

StoreKinds == {"sqlite", "memory", "valkey"}

Max(x, y) == IF x > y THEN x ELSE y

\* SqliteFingerprintStore: `now = int(utc_now().timestamp())`, whole seconds
Timestamp(now) == now \div TicksPerSecond

\* a number of seconds on the clock of the memory store and of the valkey
\* server, which keep the fraction of the second
Seconds(n) == n * TicksPerSecond

\* SqliteFingerprintStore.touch under the lock: the stores the upsert and
\* _enforce_capacity may leave
sqlite_touch(fp, h, s, ttl_seconds, now) ==
    LET up == Upsert(fp, h, s, now, ttl_seconds)
    IN  {up \ V : V \in Victims(up, s)}

\* SqliteFingerprintStore.cleanup: DELETE ... WHERE last_seen + ttl < now
sqlite_cleanup(fp, now) == {row \in fp : ~(row.last_seen + row.ttl < now)}

\* SqliteFingerprintStore.cleanup_orphans: DELETE ... WHERE source NOT IN (...)
cleanup_orphans(fp, active_sources) == {row \in fp : row.source \in active_sources}

\* the items of a dict at the positions K, in the dict's order
Items(items, K) ==
    LET F[i \in 0..Len(items)] ==
            IF i = 0 THEN <<>>
            ELSE IF i \in K THEN Append(F[i - 1], items[i]) ELSE F[i - 1]
    IN  F[Len(items)]

Position(items, h) == {i \in DOMAIN items : items[i].hash = h}

\* MemoryFingerprintStore.contains on source_store: the answer, the dict
\* after the pop of an expired entry, and the debug line logged
memory_contains(items, h, ttl_seconds, now) ==
    LET at == Position(items, h) IN
    IF at = {}
    THEN [hit |-> FALSE, store |-> items, log |-> "miss"]
    ELSE LET i == CHOOSE x \in at : TRUE IN
         IF Expired(items[i].last_seen, now, Seconds(ttl_seconds))
         THEN [hit |-> FALSE, store |-> Items(items, DOMAIN items \ at),
               log |-> "expired"]
         ELSE [hit |-> TRUE, store |-> items, log |-> "hit"]

\* sorted(source_store.items(), key=lambda kv: kv[1]): the place of item i,
\* counted from 0; the sort is stable, equal timestamps keep the dict's order
SortedPlace(items, i) ==
    Cardinality({j \in DOMAIN items :
                    \/ items[j].last_seen < items[i].last_seen
                    \/ items[j].last_seen = items[i].last_seen /\ j < i})

\* the end of the Python slice [:stop] of a list of n items
SliceStop(n, stop) == IF stop < 0 THEN Max(n + stop, 0) ELSE Min(stop, n)

\* MemoryFingerprintStore.touch on source_store: set the timestamp, and
\* beyond max_entries pop sorted_items[: -max_entries]
memory_touch(items, h, now, max_entries) ==
    LET at == Position(items, h)
        set == IF at = {}
               THEN Append(items, [hash |-> h, last_seen |-> now])
               ELSE [i \in DOMAIN items |->
                        IF i \in at THEN [items[i] EXCEPT !.last_seen = now]
                        ELSE items[i]]
        stop == SliceStop(Len(set), 0 - max_entries)
    IN  IF Len(set) > max_entries
        THEN Items(set, {i \in DOMAIN set : SortedPlace(set, i) >= stop})
        ELSE set

\* the order of the members of a sorted set that have the same score
Lexicographic(h) == IF h = "X" THEN 1 ELSE 2

\* ZRANGE: the place of member m in the index of its source, counted from 0
ZRank(index, m) ==
    Cardinality({x \in index :
                    /\ x.source = m.source
                    /\ \/ x.score < m.score
                       \/ /\ x.score = m.score
                          /\ Lexicographic(x.hash) < Lexicographic(m.hash)})

\* a key of the server that has not reached its expiry
Live(k, now) == k.expires > now

\* ValkeyFingerprintStore.contains: EXISTS fp:source:hash
valkey_contains(st, h, s, now) ==
    \E k \in st.keys : k.hash = h /\ k.source = s /\ Live(k, now)

\* ValkeyFingerprintStore._trim: the members ZRANGE 0 overflow-1 returns
valkey_victims(index, s, max_entries) ==
    LET size == Cardinality({m \in index : m.source = s})
        overflow == size - max_entries
    IN  IF size # 0 /\ size > max_entries
        THEN {m \in index : m.source = s /\ ZRank(index, m) <= overflow - 1}
        ELSE {}

\* ValkeyFingerprintStore.touch: SET key now EX ttl, ZADD index, _trim
valkey_touch(st, h, s, ttl_seconds, now, max_entries) ==
    LET keys == {k \in st.keys : ~(k.hash = h /\ k.source = s)}
                \cup {[hash |-> h, source |-> s, value |-> now,
                       expires |-> now + Seconds(ttl_seconds)]}
        index == {m \in st.index : ~(m.hash = h /\ m.source = s)}
                 \cup {[hash |-> h, source |-> s, score |-> now]}
        victims == valkey_victims(index, s, max_entries)
        gone(k) == \E v \in victims : v.hash = k.hash /\ v.source = k.source
    IN  [st EXCEPT !.keys = {k \in keys : ~gone(k)},
                   !.index = index \ victims,
                   !.sources = @ \cup {s}]

\* ValkeyFingerprintStore.cleanup: ZREM the members of the indexes of
\* self.sources whose key MGET finds missing
valkey_cleanup(st, now) ==
    LET missing(m) == ~valkey_contains(st, m.hash, m.source, now)
    IN  [st EXCEPT !.index = {m \in @ : ~(m.source \in st.sources /\ missing(m))}]

\* the entries of the store in use, whatever its class: (hash, source,
\* lastSeen), lastSeen as the store wrote it
Entries ==
    CASE fpStore.kind = "sqlite" ->
           {[hash |-> row.hash, source |-> row.source, lastSeen |-> row.last_seen]
              : row \in fingerprints}
      [] fpStore.kind = "memory" ->
           UNION {{[hash |-> fpStore.store[s][i].hash, source |-> s,
                    lastSeen |-> fpStore.store[s][i].last_seen]
                     : i \in DOMAIN fpStore.store[s]} : s \in Sources}
      [] fpStore.kind = "valkey" ->
           {[hash |-> k.hash, source |-> k.source, lastSeen |-> k.value]
              : k \in {x \in fpStore.keys : Live(x, clock)}}

\* the store object: the sqlite table and the state of the other classes
Store == [rows |-> fingerprints, obj |-> fpStore]

\* FingerprintStore.contains of the class in use, called when the clock shows
\* now: the answer, the store it leaves and the debug line it logs
store_contains(S, h, s, ttl_seconds, now) ==
    CASE S.obj.kind = "sqlite" ->
           LET c == contains(S.rows, h, s, ttl_seconds, Timestamp(now))
           IN  [hit |-> c.hit, store |-> [S EXCEPT !.rows = c.store],
                log |-> IF c.hit THEN "hit"
                        ELSE IF c.expired THEN "expired" ELSE "miss"]
      [] S.obj.kind = "memory" ->
           LET c == memory_contains(S.obj.store[s], h, ttl_seconds, now)
           IN  [hit |-> c.hit, store |-> [S EXCEPT !.obj.store[s] = c.store],
                log |-> c.log]
      [] S.obj.kind = "valkey" ->
           LET exists == valkey_contains(S.obj, h, s, now)
           IN  [hit |-> exists, store |-> S,
                log |-> IF exists THEN "hit" ELSE "miss"]

\* FingerprintStore.touch of the class in use: the stores it may leave
store_touch(S, h, s, ttl_seconds, now, max_entries) ==
    CASE S.obj.kind = "sqlite" ->
           {[S EXCEPT !.rows = fp] :
              fp \in sqlite_touch(S.rows, h, s, ttl_seconds, Timestamp(now))}
      [] S.obj.kind = "memory" ->
           {[S EXCEPT !.obj.store[s] = memory_touch(@, h, now, max_entries)]}
      [] S.obj.kind = "valkey" ->
           {[S EXCEPT !.obj = valkey_touch(@, h, s, ttl_seconds, now,
                                           max_entries)]}

\* FingerprintStore.cleanup of the class in use; the memory store's returns
\* at once
store_cleanup(S, now) ==
    CASE S.obj.kind = "sqlite" ->
           [S EXCEPT !.rows = sqlite_cleanup(@, Timestamp(now))]
      [] S.obj.kind = "memory" -> S
      [] S.obj.kind = "valkey" ->
           [S EXCEPT !.obj = valkey_cleanup(@, now)]

\* what contains(h, s, ttl_seconds) would answer in the current state
Answer(h, s, ttl_seconds) == store_contains(Store, h, s, ttl_seconds, clock).hit

StoreCall(op, h, s, ttl_seconds) ==
    [op |-> op, hash |-> h, source |-> s, ttl_seconds |-> ttl_seconds,
     now |-> clock]

ConfStore(cap, backend) ==
    [ConfDedup(cap) EXCEPT !.backend = backend]

\* The process has started with any capacity, backend and valkey client
\* availability; the store is empty and nothing else runs
InitStore ==
    /\ \E cap \in StoreCapacities, backend \in {"sqlite", "valkey"},
          client_ok \in BOOLEAN :
          /\ conf = ConfStore(cap, backend)
          /\ fpStore = NewStore(build_store(backend, client_ok))
    /\ ProcIdle
    /\ clock = 0
    /\ alive = TRUE
    /\ kicked = FALSE
    /\ nTicks = 0
    /\ ticks = [t \in TickIds |-> IdleTick]
    /\ lastSuccess = [s \in Sources |-> None]
    /\ source_semaphores = [s \in Sources |-> None]
    /\ gwSem = ConfScrape.maxGlobalConcurrency
    /\ covered = [s \in Sources |-> {}]
    /\ firstPlanned = [s \in Sources |-> None]
    /\ overlapped = [s \in Sources |-> FALSE]
    /\ issued = [s \in Sources |-> None]
    /\ fingerprints = {}
    /\ fpLock = 0
    /\ fpWaiters = <<>>
    /\ runs = <<>>
    /\ keptLog = {}
    /\ removed = {}
    /\ tickEnded = {}
    /\ StatsIdle
    /\ fnArgs = None
    /\ fnResult = None

StoreUnchanged ==
    UNCHANGED <<engineVars, fpLock, fpWaiters, runs, keptLog, removed, tickEnded, last_stats, dedupe,
                procVars>>

\* await store.touch(h, s, ttl) returns
Touch(h, s) ==
    /\ fnArgs' = Some(StoreCall("touch", h, s, Ttl(s)))
    /\ fnResult' = None
    /\ \E S \in store_touch(Store, h, s, Ttl(s), clock, MaxEntriesPerSource) :
          /\ fingerprints' = S.rows
          /\ fpStore' = S.obj
    /\ UNCHANGED <<conf, clock>>
    /\ StoreUnchanged

\* await store.contains(h, s, ttl) returns
Contains(h, s) ==
    /\ fnArgs' = Some(StoreCall("contains", h, s, Ttl(s)))
    /\ LET c == store_contains(Store, h, s, Ttl(s), clock)
       IN  /\ fnResult' = Some([ret |-> c.hit, log |-> c.log])
           /\ fingerprints' = c.store.rows
           /\ fpStore' = c.store.obj
    /\ UNCHANGED <<conf, clock>>
    /\ StoreUnchanged

\* _apply_delta_detection, one record of source s with fingerprint h: on a
\* hit the record is dropped, on a miss touched and kept
Dedup(h, s) ==
    /\ DeltaDetectionEnabled(s)
    /\ fnArgs' = Some(StoreCall("dedup", h, s, Ttl(s)))
    /\ LET c == store_contains(Store, h, s, Ttl(s), clock)
       IN  /\ fnResult' = Some([ret |-> ~c.hit, log |-> c.log])
           /\ \E S \in IF c.hit
                        THEN {c.store}
                        ELSE store_touch(c.store, h, s, Ttl(s), clock,
                                         MaxEntriesPerSource) :
                 /\ fingerprints' = S.rows
                 /\ fpStore' = S.obj
    /\ UNCHANGED <<conf, clock>>
    /\ StoreUnchanged

\* _cleanup_loop: await store.cleanup() returns
Cleanup ==
    /\ fnArgs' = Some(StoreCall("cleanup", "", "", 0))
    /\ fnResult' = None
    /\ LET S == store_cleanup(Store, clock)
       IN  /\ fingerprints' = S.rows
           /\ fpStore' = S.obj
    /\ UNCHANGED <<conf, clock>>
    /\ StoreUnchanged

\* time passes between two calls; the valkey server drops the keys that
\* reach their expiry
Elapse ==
    /\ clock < MaxStoreClock
    /\ clock' = clock + 1
    /\ fpStore' = [fpStore EXCEPT !.keys = {k \in @ : Live(k, clock + 1)}]
    /\ UNCHANGED <<conf, fingerprints, callVars>>
    /\ StoreUnchanged

\* the process is stopped and started again with another capacity: the
\* durable stores keep their entries, the memory store and self.sources
\* start empty, and cleanup_orphans runs with the configured sources
Restart(cap) ==
    /\ cap # MaxEntriesPerSource
    /\ conf' = [conf EXCEPT !.maxEntriesPerSource = cap]
    /\ fpStore' = [fpStore EXCEPT !.store = NewStore(fpStore.kind).store,
                                  !.sources = {}]
    /\ fingerprints' = cleanup_orphans(fingerprints, Sources)
    /\ fnArgs' = None
    /\ fnResult' = None
    /\ UNCHANGED clock
    /\ StoreUnchanged

NextStore ==
    \/ \E h \in Hashes, s \in Sources : Touch(h, s)
    \/ \E h \in Hashes, s \in Sources : Contains(h, s)
    \/ \E h \in Hashes, s \in Sources : Dedup(h, s)
    \/ Cleanup
    \/ Elapse
    \/ \E cap \in StoreCapacities : Restart(cap)

SpecStore == InitStore /\ [][NextStore]_vars

\* the last call was touch and the clock has not advanced since
JustTouched ==
    /\ fnArgs # None
    /\ fnArgs[1].op = "touch"
    /\ fnArgs[1].now = clock

\* C16: in every store variant, with ttl > 0 and room for at least one entry
\* per source, contains(h, s, ttl) called right after touch(h, s, ttl), the
\* clock not having advanced, returns true, whatever the store held before
\* (eviction by that touch and equal lastSeen values included).
C16_ContainsAfterTouch ==
    (JustTouched /\ fnArgs[1].ttl_seconds > 0 /\ MaxEntriesPerSource >= 1) =>
        Answer(fnArgs[1].hash, fnArgs[1].source, fnArgs[1].ttl_seconds)

\* the entries of fingerprint h of source s
EntryOf(h, s) == {e \in Entries : e.hash = h /\ e.source = s}

\* entry e of source s is within its TTL on the clock of the store in use:
\* whole seconds in sqlite, exact in the memory store; a valkey key is gone
\* when its TTL is reached
WithinTtl(e, s) ==
    CASE fpStore.kind = "sqlite" -> Timestamp(clock) - e.lastSeen <= Ttl(s)
      [] fpStore.kind = "memory" -> clock - e.lastSeen <= Seconds(Ttl(s))
      [] fpStore.kind = "valkey" -> clock - e.lastSeen < Seconds(Ttl(s))

\* the time the store in use writes as lastSeen
StoreNow ==
    IF fpStore.kind = "sqlite" THEN Timestamp(clock) ELSE clock

\* the last call was touch(h, s, ttl) and only time has passed since
AfterTouchOf(h, s) ==
    /\ fnArgs # None
    /\ fnArgs[1].op = "touch"
    /\ fnArgs[1].hash = h
    /\ fnArgs[1].source = s

\* C17 as stated: after touch(h, s, ttl), the entry being in the store,
\* contains(h, s, ttl) is true while the clock has advanced by at most ttl
\* since the touch and false once it has advanced by more, and then the
\* entry is deleted by that call.
C17_TtlExpiry ==
    [][\A h \in Hashes, s \in Sources :
         (Contains(h, s) /\ AfterTouchOf(h, s) /\ EntryOf(h, s) # {}) =>
            /\ fnResult'[1].ret = (clock - fnArgs[1].now <= Seconds(Ttl(s)))
            /\ ~fnResult'[1].ret => EntryOf(h, s)' = {}]_vars

\* C17, amended: contains(h, s, ttl) of an entry in the store is true exactly
\* while now - lastSeen <= ttl on the clock of the store (whole seconds in
\* sqlite, so the entry may outlive ttl by less than a second; a valkey key
\* is gone when ttl is reached); a true answer changes nothing, a false one
\* about an entry still stored deletes it and nothing else; and the pipeline
\* drops a record whose entry is within ttl and keeps one whose entry is
\* beyond it, touching it again.
C17_TtlExpiryOnStoreClock ==
    [][\A h \in Hashes, s \in Sources : \A e \in EntryOf(h, s) :
         /\ Contains(h, s) =>
              /\ fnResult'[1].ret = WithinTtl(e, s)
              /\ fnResult'[1].ret => Entries' = Entries
              /\ ~fnResult'[1].ret =>
                   /\ fnResult'[1].log = "expired"
                   /\ Entries' = Entries \ {e}
         /\ Dedup(h, s) =>
              /\ fnResult'[1].ret = ~WithinTtl(e, s)
              /\ ~fnResult'[1].ret => Entries' = Entries
              /\ fnResult'[1].ret =>
                   \A x \in EntryOf(h, s)' : x.lastSeen = StoreNow]_vars

\* the sqlite store held X of source a, the pipeline met it again after more
\* than its ttl, found it expired, kept the record and touched X again
C17_Witness ==
    /\ fpStore.kind = "sqlite"
    /\ fnArgs # None /\ fnResult # None
    /\ fnArgs[1].op = "dedup" /\ fnArgs[1].hash = "X" /\ fnArgs[1].source = "a"
    /\ fnArgs[1].now = clock
    /\ fnResult[1].ret /\ fnResult[1].log = "expired"
    /\ \E e \in EntryOf("X", "a") : e.lastSeen = Timestamp(clock)

\* the entries of source s
EntriesOf(s) == {e \in Entries : e.source = s}

\* the entries of source s once touch(h, s, ttl) has written its entry and
\* before it enforces the capacity
Written(h, s) ==
    (EntriesOf(s) \ EntryOf(h, s))
        \cup {[hash |-> h, source |-> s, lastSeen |-> StoreNow]}

\* C18: after every completed touch, in every store variant, each source has
\* at most maxEntriesPerSource entries; the entries the touch removed are
\* exactly the overflow, taken from the smallest lastSeen of the source; the
\* entries of the other sources are unchanged.
C18_CapacityBound ==
    [][\A h \in Hashes, s \in Sources :
         Touch(h, s) =>
            LET gone == Written(h, s) \ EntriesOf(s)'
                over == Cardinality(Written(h, s)) - MaxEntriesPerSource
            IN  /\ \A x \in Sources :
                     Cardinality(EntriesOf(x)') <= MaxEntriesPerSource
                /\ EntriesOf(s)' \subseteq Written(h, s)
                /\ Cardinality(gone) = Max(over, 0)
                /\ \A g \in gone, k \in EntriesOf(s)' : g.lastSeen <= k.lastSeen
                /\ \A x \in Sources \ {s} : EntriesOf(x)' = EntriesOf(x)]_vars

\* entry e has lastSeen + ttl < now on the clock of the store in use
Stale(e) ==
    IF fpStore.kind = "sqlite"
    THEN e.lastSeen + Ttl(e.source) < Timestamp(clock)
    ELSE e.lastSeen + Seconds(Ttl(e.source)) < clock

\* C19: after cleanup() returns, in every store variant, no entry with
\* lastSeen + ttl < now remains in the store, and every entry with
\* lastSeen + ttl >= now is unchanged.
C19_CleanupRemovesExpired ==
    [][Cleanup =>
         /\ \A e \in Entries' : ~Stale(e)
         /\ \A e \in Entries : ~Stale(e) => e \in Entries']_vars

\* ------------------------------------------------------------------------
\* SqliteFingerprintStore._execute_with_retry, one call
\* ------------------------------------------------------------------------
MaxLockRetries == 3

\* fingerprintStore.lockRetries values (a plain int)
LockRetries == (0 - 1)..MaxLockRetries

\* fingerprintStore.lockBackoffSeconds values, in tenths of a second
Backoffs == {0, 1, 6}

\* `delay = min(delay * 2, 1.0)`: the cap, in tenths of a second
DelayCap == 10

\* what db.execute and db.commit may raise: aiosqlite.OperationalError with
\* or without 'locked' in its message, or an exception of another class
DbErrors ==
    {[class |-> "OperationalError", locked |-> TRUE],
     [class |-> "OperationalError", locked |-> FALSE],
     [class |-> "Error", locked |-> FALSE]}

\* `attempts = max(1, self.lock_retries)`
Attempts(lock_retries) == Max(1, lock_retries)

\* faulty variant of Retried: the attempts left are not looked at
RetriedWhateverAttempt(e, attempt, attempts) ==
    e.class = "OperationalError" /\ e.locked

\* the except clause: the error is swallowed and the statement tried again
Retried(e, attempt, attempts) ==
    e.class = "OperationalError" /\ e.locked /\ attempt < attempts

\* the call has been entered: first pass of the loop, db.execute awaited
InitRetry ==
    /\ RestIdle
    /\ fnArgs \in [lock_retries : LockRetries, lock_backoff : Backoffs,
                   commit : BOOLEAN]
    /\ fnResult = [pc |-> "execute", attempt |-> 1,
                   delay |-> fnArgs.lock_backoff, events |-> <<>>]

RetryUnchanged ==
    UNCHANGED <<conf, clock, engineVars, dedupVars, fnArgs, storeVars, procVars>>

Event(ev, err) == [ev |-> ev, attempt |-> fnResult.attempt, err |-> err]

\* an exception e leaves the try block: retried after a sleep, or raised
Except(call, e) ==
    IF Retried(e, fnResult.attempt, Attempts(fnArgs.lock_retries))
    THEN [fnResult EXCEPT !.pc = "sleep",
                          !.events = Append(@, Event(call, Some(e)))]
    ELSE [fnResult EXCEPT !.pc = "raised",
                          !.events = Append(@, Event(call, Some(e)))]

\* await db.execute(sql, params) returns
ExecuteReturns ==
    /\ fnResult.pc = "execute"
    /\ fnResult' = [fnResult EXCEPT
                      !.pc = IF fnArgs.commit THEN "commit" ELSE "returned",
                      !.events = Append(@, Event("execute", None))]
    /\ RetryUnchanged

\* await db.execute(sql, params) raises
ExecuteRaises(e) ==
    /\ fnResult.pc = "execute"
    /\ fnResult' = Except("execute", e)
    /\ RetryUnchanged

\* await db.commit() returns, and the call with it
CommitReturns ==
    /\ fnResult.pc = "commit"
    /\ fnResult' = [fnResult EXCEPT !.pc = "returned",
                                    !.events = Append(@, Event("commit", None))]
    /\ RetryUnchanged

\* await db.commit() raises
CommitRaises(e) ==
    /\ fnResult.pc = "commit"
    /\ fnResult' = Except("commit", e)
    /\ RetryUnchanged

\* await asyncio.sleep(delay) returns: the delay doubles up to the cap and
\* the loop goes to its next pass
SleepReturns ==
    /\ fnResult.pc = "sleep"
    /\ fnResult' = [fnResult EXCEPT
                      !.pc = "execute",
                      !.attempt = @ + 1,
                      !.delay = Min(fnResult.delay * 2, DelayCap),
                      !.events = Append(@, [ev |-> "sleep",
                                            attempt |-> fnResult.attempt,
                                            err |-> None])]
    /\ RetryUnchanged

NextRetry ==
    \/ ExecuteReturns
    \/ \E e \in DbErrors : ExecuteRaises(e)
    \/ CommitReturns
    \/ \E e \in DbErrors : CommitRaises(e)
    \/ SleepReturns

SpecRetry == InitRetry /\ [][NextRetry]_vars

\* the events of the call so far, by kind
EventsOf(ev) == {i \in DOMAIN fnResult.events : fnResult.events[i].ev = ev}

LockedError(x) ==
    x.err # None /\ x.err[1].class = "OperationalError" /\ x.err[1].locked

\* C20: _execute_with_retry makes at most max(1, lockRetries) attempts; an
\* error whose message contains 'locked' is retried after a backoff sleep
\* while attempts remain and raised on the last attempt; any other error is
\* raised at once, without retry; commit is called only after the execute of
\* the same attempt has succeeded.
C20_BoundedLockRetry ==
    LET evs == fnResult.events
        n == Len(evs)
        attempts == IF fnArgs.lock_retries >= 1 THEN fnArgs.lock_retries ELSE 1
    IN  /\ Cardinality(EventsOf("execute")) <= attempts
        /\ fnResult.attempt <= attempts
        /\ \A i \in 1..n :
              /\ (evs[i].err # None /\ LockedError(evs[i]) /\ evs[i].attempt < attempts)
                    => /\ i < n => evs[i + 1].ev = "sleep"
                       /\ i = n => fnResult.pc = "sleep"
              /\ (evs[i].err # None /\ LockedError(evs[i]) /\ evs[i].attempt = attempts)
                    => i = n /\ fnResult.pc = "raised"
              /\ (evs[i].err # None /\ ~LockedError(evs[i]))
                    => i = n /\ fnResult.pc = "raised"
              /\ evs[i].ev = "sleep"
                    => /\ i > 1 /\ LockedError(evs[i - 1])
                       /\ i = n => fnResult.pc = "execute"
                       /\ i < n => evs[i + 1].ev = "execute"
                                   /\ evs[i + 1].attempt = evs[i].attempt + 1
              /\ evs[i].ev = "commit"
                    => /\ i > 1
                       /\ evs[i - 1].ev = "execute" /\ evs[i - 1].err = None
                       /\ evs[i - 1].attempt = evs[i].attempt
        /\ fnResult.pc = "raised" => n >= 1 /\ evs[n].err # None
        /\ fnResult.pc = "returned" => n >= 1 /\ evs[n].err = None

\* lockRetries = 3: two passes met 'database is locked' and slept, the third
\* met it again and raised it
C20_Witness ==
    /\ fnArgs.lock_retries = 3
    /\ fnResult.pc = "raised"
    /\ Cardinality(EventsOf("execute")) + Cardinality(EventsOf("commit")) >= 3
    /\ Cardinality(EventsOf("sleep")) = 2
    /\ LockedError(fnResult.events[Len(fnResult.events)])

\* ------------------------------------------------------------------------
\* SqliteStateStore.set_last_success, one call
\* ------------------------------------------------------------------------
\* the call has been entered, _ensure has returned: db.execute is awaited
InitSetLastSuccess ==
    /\ RestIdle
    /\ fnArgs \in [source : Sources, when : 0..MaxTime]
    /\ fnResult = [pc |-> "execute", attempt |-> 1, events |-> <<>>]

SetUnchanged ==
    UNCHANGED <<conf, clock, alive, kicked, nTicks, ticks, source_semaphores,
                gwSem, covered, firstPlanned, overlapped, issued, dedupVars, fnArgs,
                storeVars, procVars>>

\* await db.execute(INSERT ... ON CONFLICT DO UPDATE) returns
UpsertReturns ==
    /\ fnResult.pc = "execute"
    /\ fnResult' = [fnResult EXCEPT !.pc = "commit",
                                    !.events = Append(@, Event("execute", None))]
    /\ UNCHANGED lastSuccess
    /\ SetUnchanged

\* await db.execute(...) raises: nothing catches it, the call raises
UpsertRaises(e) ==
    /\ fnResult.pc = "execute"
    /\ fnResult' = [fnResult EXCEPT !.pc = "raised",
                                    !.events = Append(@, Event("execute", Some(e)))]
    /\ UNCHANGED lastSuccess
    /\ SetUnchanged

\* await db.commit() returns, and the call with it: the row is stored
UpsertCommitted ==
    /\ fnResult.pc = "commit"
    /\ fnResult' = [fnResult EXCEPT !.pc = "returned",
                                    !.events = Append(@, Event("commit", None))]
    /\ lastSuccess' = [lastSuccess EXCEPT ![fnArgs.source] = Some(fnArgs.when)]
    /\ SetUnchanged

\* await db.commit() raises
UpsertCommitRaises(e) ==
    /\ fnResult.pc = "commit"
    /\ fnResult' = [fnResult EXCEPT !.pc = "raised",
                                    !.events = Append(@, Event("commit", Some(e)))]
    /\ UNCHANGED lastSuccess
    /\ SetUnchanged

NextSetLastSuccess ==
    \/ UpsertReturns
    \/ \E e \in DbErrors : UpsertRaises(e)
    \/ UpsertCommitted
    \/ \E e \in DbErrors : UpsertCommitRaises(e)

SpecSetLastSuccess == InitSetLastSuccess /\ [][NextSetLastSuccess]_vars

\* C21: SqliteStateStore.set_last_success retries when the database is
\* locked: a first execute that fails with a 'locked' error does not end the
\* call, which, the second execute succeeding, returns after exactly two
\* executes and a commit; an error that is not a lock error is raised with no
\* commit.
C21_SetLastSuccessRetries ==
    LET evs == fnResult.events
        n == Len(evs)
    IN  /\ (n >= 1 /\ LockedError(evs[1])) =>
              /\ fnResult.pc # "raised" \/ n > 1
              /\ n >= 2 => evs[2].ev \in {"sleep", "execute"}
              /\ (fnResult.pc = "returned" /\ Cardinality(EventsOf("execute")) = 2)
                    => evs[n].ev = "commit"
        /\ (fnResult.pc = "raised" /\ ~LockedError(evs[n])) =>
              EventsOf("commit") \subseteq {n}

\* ------------------------------------------------------------------------
\* The scrape loop started on a state store that holds, for some source, a
\* text that is not a timestamp
\* ------------------------------------------------------------------------
\* what the durable state store may hold for a source when the process
\* starts: nothing, the watermark of an earlier process, or another text
StoredAtStart == {None, Some(0), Some(Malformed)}

InitStored ==
    /\ \E backend \in {"sqlite", "valkey"} :
          /\ conf = [ConfScrape EXCEPT !.backend = backend]
          /\ fpStore = NewStore(build_store(backend, TRUE))
    /\ ProcIdle
    /\ lastSuccess \in [Sources -> StoredAtStart]
    /\ \E s \in Sources : lastSuccess[s] = Some(Malformed)
    /\ clock = 0
    /\ alive = TRUE
    /\ kicked = FALSE
    /\ nTicks = 0
    /\ ticks = [t \in TickIds |-> IdleTick]
    /\ source_semaphores = [s \in Sources |-> None]
    /\ gwSem = ConfScrape.maxGlobalConcurrency
    /\ covered = [s \in Sources |-> {}]
    /\ firstPlanned = [s \in Sources |-> None]
    /\ overlapped = [s \in Sources |-> FALSE]
    /\ issued = [s \in Sources |-> None]
    /\ fingerprints = {}
    /\ fpLock = 0
    /\ fpWaiters = <<>>
    /\ runs = <<>>
    /\ keptLog = {}
    /\ removed = {}
    /\ tickEnded = {}
    /\ StatsIdle
    /\ fnArgs = None
    /\ fnResult = None

SpecStored == InitStored /\ [][Next]_vars

\* C22: get_last_success returns none and does not raise when the value
\* stored for the source is not a valid ISO-8601 timestamp, in every state
\* store variant; the tick that reads it (the store answering) then plans
\* as if there were no prior run.
C22_MalformedReadsAsNone ==
    [][\A t \in TickIds :
         (Read(t, TRUE) /\ lastSuccess[ticks[t].src] = Some(Malformed)) =>
            LET tk == ticks[t]
                plan == compute_windows(tk.src, tk.start, None)
            IN  /\ ~ticks'[t].raised
                /\ ticks'[t].read
                /\ ticks'[t].last = None
                /\ ticks'[t].pc = "gather" =>
                      ticks'[t].windows =
                          [i \in 1..Len(plan) |-> NewWindow(plan[i])]]_vars

\* ------------------------------------------------------------------------
\* The scrape loop with an OAuth source whose ticks plan several windows:
\* the run_window tasks of a tick share one strategy and its lock
\* ------------------------------------------------------------------------
\* ConfScrape without the admin API and with the OAuth source a alone: its
\* first scrape starts two clock units before the epoch and is cut in slices
\* of one unit, fetched three at a time; its interval is longer than the
\* time modelled, so that the start-up scrape is the only one
ConfToken ==
    [ConfScrape EXCEPT !.sources = <<"a">>,
                       !.enableAdminApi = FALSE,
                       !.source["a"].frequency = 10,
                       !.source["a"].maxConcurrency = Some(3),
                       !.source["a"].parallelWindow = Some(1),
                       !.source["a"].firstScrapeStart = Some(0 - 2)]

\* the process starts one clock unit after the epoch
InitToken ==
    /\ conf = ConfToken
    /\ clock = 1
    /\ alive = TRUE
    /\ kicked = FALSE
    /\ nTicks = 0
    /\ ticks = [t \in TickIds |-> IdleTick]
    /\ lastSuccess = [s \in Sources |-> None]
    /\ source_semaphores = [s \in Sources |-> None]
    /\ gwSem = ConfToken.maxGlobalConcurrency
    /\ covered = [s \in Sources |-> {}]
    /\ firstPlanned = [s \in Sources |-> None]
    /\ overlapped = [s \in Sources |-> FALSE]
    /\ issued = [s \in Sources |-> None]
    /\ DedupIdle

\* the steps of the scrape loop under ConfToken: the admin API is not
\* served, the interval job does not fire, the source does not skip its
\* first run and has no delta detection (pipeline.run never suspends)
NextToken ==
    \/ RunAllOnce
    \/ AdvanceClock
    \/ \E t \in TickIds, ok \in BOOLEAN : Read(t, ok)
    \/ \E t \in TickIds, i \in 1..(MaxClock + 1) : WindowAcquire(t, i)
    \/ \E t \in TickIds, i \in 1..(MaxClock + 1) : LockAcquire(t, i)
    \/ \E t \in TickIds, i \in 1..(MaxClock + 1), ok \in BOOLEAN,
          e \in {None} \cup {Some(x) : x \in ExpiresIn} :
            TokenResponse(t, i, ok, e)
    \/ \E t \in TickIds, i \in 1..(MaxClock + 1) : GatewayAcquire(t, i)
    \/ \E t \in TickIds, i \in 1..(MaxClock + 1),
          answer \in {"error", "object", "list"}, recs \in 0..MaxRecs :
            HttpResponse(t, i, answer, recs)
    \/ \E t \in TickIds, ok \in BOOLEAN : Commit(t, ok)

SpecToken == InitToken /\ [][NextToken]_vars

\* the window tasks of a tick whose token request is in flight
TokenRequests(tk) == {i \in WindowIds(tk) : tk.windows[i].pc = "token"}

\* C23: for one strategy instance (one tick's) at most one token request is
\* in flight at any time; a caller that arrives while a refresh is in
\* progress waits for the lock, and when it gets the lock with a cached token
\* and now < expiresAt - TokenSkew it goes on to its data request without
\* another token request.
C23_SingleFlightRefresh ==
    [][\A t \in TickIds :
         LET tk == ticks[t]
             after == ticks'[t]
         IN  /\ Cardinality(TokenRequests(after)) <= 1
             /\ \A i \in WindowIds(tk) :
                  /\ (/\ TokenRequests(tk) # {}
                      /\ tk.windows[i].pc = "wait_sem"
                      /\ after.windows[i].pc # "wait_sem") =>
                        after.windows[i].pc = "wait_lock"
                  /\ (/\ tk.windows[i].pc = "wait_lock"
                      /\ after.windows[i].pc # "wait_lock"
                      /\ tk.token
                      /\ tk.expiresAt # None
                      /\ clock < tk.expiresAt[1] - TokenSkew) =>
                        /\ TokenRequests(after) = {}
                        /\ after.windows[i].pc \in {"http", "wait_gw"}
                        /\ after.windows[i].reqs =
                             tk.windows[i].reqs +
                               (IF after.windows[i].pc = "http" THEN 1 ELSE 0)]_vars

\* a refresh has finished with a token that is still fresh while another
\* window task of the same tick waits for the strategy lock
C23_Witness ==
    \E t \in TickIds :
       LET tk == ticks[t] IN
       /\ tk.pc = "gather"
       /\ tk.token /\ tk.lock = 0
       /\ tk.expiresAt # None /\ clock < tk.expiresAt[1] - TokenSkew
       /\ \E i \in WindowIds(tk) : tk.windows[i].pc = "wait_lock"

\* ------------------------------------------------------------------------
\* RecordPipeline: the filter stage
\* ------------------------------------------------------------------------
\* the most records in one call of the pipeline
MaxRecords == 3

\* the most predicates in a rule and the most rules in a drop or keep list
MaxPreds == 2
MaxRules == 2

\* the predicates (MatchPredicate) of the configuration
Preds == 1..MaxPreds

\* a record, as far as the filters see it: the predicates that
\* utils.matches(predicate.matchType, lookup_path(record, predicate.field),
\* predicate.value) is true of
Records == SUBSET Preds

matches(p, record) == p \in record

SeqsUpTo(S, n) == UNION {[1..k -> S] : k \in 0..n}

\* DropRule.any / KeepRule.all: predicate lists (here without repetition, in
\* increasing order)
Rules ==
    {r \in SeqsUpTo(Preds, MaxPreds) :
        \A i, j \in 1..Len(r) : i < j => r[i] < r[j]}

Least(S) == CHOOSE k \in S : \A l \in S : k <= l

\* the predicates of a drop list in the order the two loops of
\* _matches_drop visit them, each with the index of its rule
RECURSIVE DropOrder(_, _)
DropOrder(drop, i) ==
    IF i > Len(drop)
    THEN <<>>
    ELSE [j \in 1..Len(drop[i]) |-> <<i, drop[i][j]>>] \o DropOrder(drop, i + 1)

\* RecordPipeline._matches_drop: True at the first predicate that matches;
\* evals are the predicates evaluated
matches_drop(record, drop) ==
    LET order == DropOrder(drop, 1)
        hits == {k \in 1..Len(order) : matches(order[k][2], record)}
    IN  IF hits = {}
        THEN [ret |-> FALSE, evals |-> order]
        ELSE [ret |-> TRUE, evals |-> SubSeq(order, 1, Least(hits))]

\* faulty variant of matches_keep: a rule is satisfied by any one of its
\* predicates
RECURSIVE matches_keep_any(_, _, _)
matches_keep_any(record, keep, i) ==
    IF i > Len(keep)
    THEN [ret |-> FALSE, evals |-> <<>>]
    ELSE LET rule == keep[i]
             hits == {j \in 1..Len(rule) : matches(rule[j], record)}
             n == IF hits = {} THEN Len(rule) ELSE Least(hits)
             evals == [j \in 1..n |-> <<i, rule[j]>>]
             rest == matches_keep_any(record, keep, i + 1)
         IN  IF hits # {}
             THEN [ret |-> TRUE, evals |-> evals]
             ELSE [ret |-> rest.ret, evals |-> evals \o rest.evals]

\* RecordPipeline._matches_keep from rule i on: a rule is left at its first
\* predicate that does not match; True at the first rule left by none
RECURSIVE matches_keep(_, _, _)
matches_keep(record, keep, i) ==
    IF i > Len(keep)
    THEN [ret |-> FALSE, evals |-> <<>>]
    ELSE LET rule == keep[i]
             misses == {j \in 1..Len(rule) : ~matches(rule[j], record)}
             n == IF misses = {} THEN Len(rule) ELSE Least(misses)
             evals == [j \in 1..n |-> <<i, rule[j]>>]
             rest == matches_keep(record, keep, i + 1)
         IN  IF misses = {}
             THEN [ret |-> TRUE, evals |-> evals]
             ELSE [ret |-> rest.ret, evals |-> evals \o rest.evals]

\* the evaluations of one stage for record n, as log entries
Logged(n, stage, evals) ==
    [k \in 1..Len(evals) |->
        [record |-> n, stage |-> stage, rule |-> evals[k][1], pred |-> evals[k][2]]]

\* RecordPipeline._apply_filters from record n on: the records remaining and
\* the predicate evaluations made, in order
RECURSIVE filter_from(_, _, _, _)
filter_from(records, drop, keep, n) ==
    IF n > Len(records)
    THEN [out |-> <<>>, log |-> <<>>]
    ELSE LET record == records[n]
             d == matches_drop(record, drop)
             k == matches_keep(record, keep, 1)
             rest == filter_from(records, drop, keep, n + 1)
         IN  IF d.ret
             THEN [out |-> rest.out,
                   log |-> Logged(n, "drop", d.evals) \o rest.log]
             ELSE IF keep # <<>> /\ ~k.ret
             THEN [out |-> rest.out,
                   log |-> Logged(n, "drop", d.evals) \o Logged(n, "keep", k.evals)
                             \o rest.log]
             ELSE [out |-> <<record>> \o rest.out,
                   log |-> Logged(n, "drop", d.evals)
                             \o (IF keep # <<>> THEN Logged(n, "keep", k.evals) ELSE <<>>)
                             \o rest.log]

\* RecordPipeline._apply_filters
apply_filters(records, drop, keep) ==
    IF drop = <<>> /\ keep = <<>>
    THEN [out |-> records, log |-> <<>>]
    ELSE filter_from(records, drop, keep, 1)

InitFilters ==
    /\ RestIdle
    /\ fnArgs \in [records : SeqsUpTo(Records, MaxRecords),
                   drop : SeqsUpTo(Rules, MaxRules),
                   keep : SeqsUpTo(Rules, MaxRules)]
    /\ fnResult = None

\* _apply_filters(records, source.filters) returns
ApplyFilters ==
    /\ fnResult = None
    /\ fnResult' = Some(apply_filters(fnArgs.records, fnArgs.drop, fnArgs.keep))
    /\ UNCHANGED <<conf, clock, engineVars, dedupVars, fnArgs, storeVars, procVars>>

NextFilters == ApplyFilters

SpecFilters == InitFilters /\ [][NextFilters]_vars

\* the record passes by the rules as the configuration states them
Passes(record, drop, keep) ==
    /\ \A i \in 1..Len(drop) : \A j \in 1..Len(drop[i]) :
          ~matches(drop[i][j], record)
    /\ \/ keep = <<>>
       \/ \E i \in 1..Len(keep) : \A j \in 1..Len(keep[i]) :
             matches(keep[i][j], record)

\* C24: a record passes the filter stage iff no predicate of any drop rule
\* matches it and (there are no keep rules, or some keep rule has all of its
\* predicates matching); for every record the drop predicates are evaluated
\* before the keep predicates, and these only when no drop predicate
\* matched; the surviving records keep their input order.
C24_FilterStage ==
    fnResult # None =>
       LET records == fnArgs.records
           drop == fnArgs.drop
           keep == fnArgs.keep
           out == fnResult[1].out
           log == fnResult[1].log
           Pass(record) == Passes(record, drop, keep)
       IN  /\ out = SelectSeq(records, Pass)
           /\ \A a, b \in 1..Len(log) :
                 (a < b /\ log[a].record = log[b].record) =>
                    ~(log[a].stage = "keep" /\ log[b].stage = "drop")
           /\ \A a \in 1..Len(log) :
                 log[a].stage = "keep" =>
                    \A i \in 1..Len(drop) : \A j \in 1..Len(drop[i]) :
                       ~matches(drop[i][j], records[log[a].record])

\* three records were filtered by a drop rule and two keep rules: one was
\* dropped and two, not the first two, survive
C24_Witness ==
    /\ fnResult # None
    /\ Len(fnArgs.records) = 3
    /\ Len(fnArgs.drop) >= 1 /\ Len(fnArgs.keep) = 2
    /\ fnResult[1].out = <<fnArgs.records[1], fnArgs.records[3]>>
    /\ fnArgs.records[1] # fnArgs.records[3]
    /\ fnArgs.records[2] \notin {fnArgs.records[1], fnArgs.records[3]}
    /\ \E a \in 1..Len(fnResult[1].log) : fnResult[1].log[a].stage = "keep"

\* ------------------------------------------------------------------------
\* RecordPipeline.run, one call: filter, limit, delta detection
\* ------------------------------------------------------------------------
\* filters.limits.maxRecordsPerScrape: Optional[int]
MaxLimit == 2
Limits == {None} \cup {Some(n) : n \in (0 - 1)..MaxLimit}

\* faulty variant of apply_limits: the cap keeps the last records
apply_limits_tail(records, limit) ==
    IF limit = None \/ limit[1] <= 0
    THEN records
    ELSE SubSeq(records, Max(1, Len(records) - limit[1] + 1), Len(records))

\* RecordPipeline._apply_limits: records[:limit]
apply_limits(records, limit) ==
    IF limit = None \/ limit[1] <= 0
    THEN records
    ELSE SubSeq(records, 1, Min(limit[1], Len(records)))

\* the filters of the repository's test, each present or not: drop on one
\* predicate, keep on the other
InitPipeline ==
    /\ RestIdle
    /\ fnArgs \in [records : SeqsUpTo(Records, MaxRecords),
                   drop : {<<>>, <<<<1>>>>},
                   keep : {<<>>, <<<<2>>>>},
                   limit : Limits,
                   enabled : BOOLEAN]
    /\ fnResult = [pc |-> "run", limited |-> <<>>, i |-> 0, kept |-> <<>>,
                   calls |-> <<>>]

PipelineUnchanged ==
    UNCHANGED <<conf, clock, engineVars, dedupVars, fnArgs, storeVars, procVars>>

\* the loop of _apply_delta_detection at record i of its input: the call
\* returns after the last record, else store.contains is awaited
AtRecord(r, i) ==
    IF i > Len(r.limited)
    THEN [r EXCEPT !.pc = "returned", !.i = i]
    ELSE [r EXCEPT !.pc = "contains", !.i = i]

\* run up to its first suspension: _apply_filters, _apply_limits, and
\* _apply_delta_detection, which returns its input when delta detection is
\* disabled
RunPipeline ==
    /\ fnResult.pc = "run"
    /\ LET filtered == apply_filters(fnArgs.records, fnArgs.drop, fnArgs.keep).out
           limited == apply_limits(filtered, fnArgs.limit)
       IN  fnResult' =
             IF ~fnArgs.enabled
             THEN [fnResult EXCEPT !.pc = "returned", !.limited = limited,
                                   !.kept = limited]
             ELSE AtRecord([fnResult EXCEPT !.limited = limited], 1)
    /\ PipelineUnchanged

\* await self.store.contains(fp_hash, source.name, ttl) returns: on a hit the
\* loop continues, else store.touch is awaited
StoreContains(hit) ==
    /\ fnResult.pc = "contains"
    /\ LET i == fnResult.i
           called == [fnResult EXCEPT !.calls =
                         Append(@, [op |-> "contains", at |-> i,
                                    record |-> fnResult.limited[i]])]
       IN  fnResult' = IF hit
                       THEN AtRecord(called, i + 1)
                       ELSE [called EXCEPT !.pc = "touch"]
    /\ PipelineUnchanged

\* await self.store.touch(fp_hash, source.name, ttl) returns: the record is
\* kept
StoreTouch ==
    /\ fnResult.pc = "touch"
    /\ LET i == fnResult.i
           called == [fnResult EXCEPT !.calls =
                         Append(@, [op |-> "touch", at |-> i,
                                    record |-> fnResult.limited[i]]),
                                      !.kept = Append(@, fnResult.limited[i])]
       IN  fnResult' = AtRecord(called, i + 1)
    /\ PipelineUnchanged

NextPipeline ==
    \/ RunPipeline
    \/ \E hit \in BOOLEAN : StoreContains(hit)
    \/ StoreTouch

SpecPipeline == InitPipeline /\ [][NextPipeline]_vars

\* the calls of one store operation, in order
CallsOf(op) == SelectSeq(fnResult.calls, LAMBDA c : c.op = op)

\* C25: pipeline.run applies filter, then limit, then dedup: the input of the
\* dedup stage is the first maxRecordsPerScrape of the records that pass the
\* filters (all of them when the limit is unset or <= 0); the fingerprint
\* store is consulted once for each of these records, in order, and for no
\* other, and touched only for a record it was just consulted for; with
\* delta detection disabled the store is never called and the limited
\* records are returned.
C25_FilterLimitDedup ==
    LET Pass(record) == Passes(record, fnArgs.drop, fnArgs.keep)
        passed == SelectSeq(fnArgs.records, Pass)
        first == IF fnArgs.limit = None \/ fnArgs.limit[1] <= 0
                    \/ fnArgs.limit[1] >= Len(passed)
                 THEN passed
                 ELSE [n \in 1..fnArgs.limit[1] |-> passed[n]]
        calls == fnResult.calls
        contains_calls == CallsOf("contains")
    IN  /\ fnResult.pc # "run" => fnResult.limited = first
        /\ ~fnArgs.enabled => calls = <<>>
        /\ (fnResult.pc = "returned" /\ ~fnArgs.enabled) => fnResult.kept = first
        /\ \A n \in 1..Len(contains_calls) :
              /\ contains_calls[n].at = n
              /\ n <= Len(first)
              /\ contains_calls[n].record = first[n]
        /\ (fnResult.pc = "returned" /\ fnArgs.enabled) =>
              Len(contains_calls) = Len(first)
        /\ \A c \in 1..Len(calls) :
              calls[c].op = "touch" =>
                 /\ c > 1
                 /\ calls[c - 1] = [calls[c] EXCEPT !.op = "contains"]

\* a run with delta detection has returned: a record was filtered out, the
\* limit cut another, and the store was consulted and touched for the rest
C25_Witness ==
    /\ fnResult.pc = "returned"
    /\ fnArgs.enabled
    /\ fnArgs.limit # None
    /\ Len(apply_filters(fnArgs.records, fnArgs.drop, fnArgs.keep).out)
          < Len(fnArgs.records)
    /\ 0 < Len(fnResult.limited)
    /\ Len(fnResult.limited)
          < Len(apply_filters(fnArgs.records, fnArgs.drop, fnArgs.keep).out)
    /\ Len(CallsOf("touch")) >= 1

\* ------------------------------------------------------------------------
\* async_main from its sleep loop to its end: the cleanup loop, the detached
\* emit tasks of the ticks, the finally block
\* ------------------------------------------------------------------------
\* the most ticks that emit and the most cleanup cycles
MaxTasks == 2
MaxCleanups == 2

\* telemetry_batches of a tick: one list of records per window that
\* produced records (here one record each, one or two windows); a record is
\* its gauge reading, lookup_path(record, gauge_def.dataKey): None or a number
BatchLists == {<<None>>, <<Some(1)>>, <<Some(1), Some(2)>>}

\* the parameters of Telemetry.emit_metrics and Telemetry.emit_logs after
\* self, and the arguments emit() passes to each
EmitParams == 2
EmitArgs == 3

\* a call with positional arguments only: TypeError unless as many
\* arguments are passed as the method has parameters
Accepts(params, args) == params = args

\* the loop of emit_metrics over the records for one gauge: the values of
\* the records that have a reading
RECURSIVE gauge_values(_)
gauge_values(records) ==
    IF records = <<>>
    THEN <<>>
    ELSE (IF Head(records) = None THEN <<>> ELSE <<Head(records)[1]>>)
            \o gauge_values(Tail(records))

\* faulty variant of set_values: the cached list is overwritten in place
\* (self.values[:] = values)
set_values_in_place(g, h, values) ==
    [gauge |-> g, heap |-> [h EXCEPT ![g.values] = h[values]]]

\* GaugeAggregator.set_values(values): self.values = values, the reference
\* to the list the caller built
set_values(g, h, values) ==
    [gauge |-> [g EXCEPT !.values = values], heap |-> h]

\* Telemetry.emit_metrics(source, records) for a source with one gauge, run
\* without interruption: a new list is filled and handed to set_values
emit_metrics(g, h, records) ==
    set_values(g, Append(h, gauge_values(records)), Len(h) + 1)

\* emit() of _emit_telemetry_async from batch n on: each call of
\* emit_metrics and emit_logs is made with EmitArgs arguments inside its own
\* try/except Exception; calls are the outcomes of the calls made
RECURSIVE emit(_, _, _, _)
emit(g, h, batches, n) ==
    IF n > Len(batches)
    THEN [gauge |-> g, heap |-> h, calls |-> <<>>]
    ELSE LET ok == Accepts(EmitParams, EmitArgs)
             m == IF ok THEN emit_metrics(g, h, <<batches[n]>>)
                        ELSE [gauge |-> g, heap |-> h]
             rest == emit(m.gauge, m.heap, batches, n + 1)
             outcome == IF ok THEN "returned" ELSE "TypeError"
         IN  [rest EXCEPT !.calls =
                 <<[call |-> "emit_metrics", batch |-> n, outcome |-> outcome],
                   [call |-> "emit_logs", batch |-> n, outcome |-> outcome]>> \o @]

\* faulty variant of cancel_running: no task is cancelled
cancel_none(ts, tracked) == ts

\* Telemetry.shutdown, its loop: task.cancel() for every tracked task that
\* is not done
cancel_running(ts, tracked) ==
    [n \in 1..Len(ts) |->
        IF n \in tracked /\ ts[n].state = "pending"
        THEN [ts[n] EXCEPT !.must_cancel = TRUE]
        ELSE ts[n]]

\* a call made by the finally block of async_main
FinalCall(call, wait) == [call |-> call, wait |-> wait]

\* the configuration of the process: the admin API is off,
\* terminateGracefully either way
InitMain ==
    /\ \E wait \in BOOLEAN :
          conf = [ConfScrape EXCEPT !.enableAdminApi = FALSE,
                                    !.terminateGracefully = wait]
    /\ clock = 0
    /\ alive = TRUE
    /\ kicked = TRUE
    /\ nTicks = 0
    /\ ticks = [t \in TickIds |-> IdleTick]
    /\ lastSuccess = [s \in Sources |-> None]
    /\ source_semaphores = [s \in Sources |-> None]
    /\ gwSem = ConfScrape.maxGlobalConcurrency
    /\ covered = [s \in Sources |-> {}]
    /\ firstPlanned = [s \in Sources |-> None]
    /\ overlapped = [s \in Sources |-> FALSE]
    /\ issued = [s \in Sources |-> None]
    /\ DedupIdle
    /\ fnArgs = None
    /\ fnResult = None

MainUnchanged ==
    UNCHANGED <<conf, clock, engineVars, dedupVars, callVars, storeVars, reader>>

\* the scheduler's jobs run until scheduler.shutdown, which cancels them
\* (AsyncIOExecutor.shutdown cancels the futures of its running jobs)
TicksRun == main.pc \in {"running", "await_cleanup"}

\* a tick with telemetry_batches: status is set, _emit_telemetry_async
\* creates the task, adds it to telemetry._emit_tasks and registers the
\* discard callback; the tick goes on to await set_last_success
TickEmits(status, batches) ==
    /\ TicksRun
    /\ Len(tasks) < MaxTasks
    /\ tasks' = Append(tasks, [state |-> "pending", must_cancel |-> FALSE,
                                batches |-> batches, calls |-> <<>>,
                                late |-> FALSE,
                                tick |-> [pc |-> "commit", status |-> status,
                                          recorded |-> None]])
    /\ emit_tasks' = emit_tasks \cup {Len(tasks) + 1}
    /\ UNCHANGED <<main, cleanup_task, gauge, heap>>
    /\ MainUnchanged

\* the tick's set_last_success returns or raises, or the tick is cancelled:
\* the finally block of scrape_source records its status
TickFinally(n) ==
    /\ n \in 1..Len(tasks)
    /\ tasks[n].tick.pc = "commit"
    /\ tasks' = [tasks EXCEPT ![n].tick.pc = "done",
                              ![n].tick.recorded = Some(tasks[n].tick.status)]
    /\ UNCHANGED <<main, cleanup_task, emit_tasks, gauge, heap>>
    /\ MainUnchanged

\* the emit task gets its first step: cancelled before it, it ends without
\* running emit(); else emit() runs to its end (it never suspends)
EmitRuns(n) ==
    /\ n \in 1..Len(tasks)
    /\ tasks[n].state = "pending"
    /\ IF tasks[n].must_cancel
       THEN /\ tasks' = [tasks EXCEPT ![n].state = "cancelled"]
            /\ UNCHANGED <<gauge, heap>>
       ELSE LET r == emit(gauge, heap, tasks[n].batches, 1)
            IN  /\ tasks' = [tasks EXCEPT ![n].state = "done",
                                          ![n].calls = r.calls,
                                          ![n].late =
                                              main.pc \in {"fp_close", "state_close",
                                                           "exited"}]
                /\ gauge' = r.gauge
                /\ heap' = r.heap
    /\ UNCHANGED <<main, cleanup_task, emit_tasks>>
    /\ MainUnchanged

\* the done callback of an emit task: telemetry._emit_tasks.discard(t)
Discard(n) ==
    /\ n \in emit_tasks
    /\ tasks[n].state \in {"done", "cancelled"}
    /\ emit_tasks' = emit_tasks \ {n}
    /\ UNCHANGED <<main, cleanup_task, tasks, gauge, heap>>
    /\ MainUnchanged

\* faulty variant of cleanup_except: a failed cleanup ends the loop
cleanup_except_return(task) ==
    [task EXCEPT !.pc = "returned", !.events = Append(@, "error")]

\* _cleanup_loop, except Exception: the failure is recorded and logged, the
\* loop goes on to its next sleep
cleanup_except(task) ==
    [task EXCEPT !.pc = "sleep", !.events = Append(@, "error")]

\* _cleanup_loop: asyncio.sleep(interval) returns and store.cleanup() is
\* awaited
SleepEnds ==
    /\ cleanup_task.pc = "sleep"
    /\ ~cleanup_task.must_cancel
    /\ Len(SelectSeq(cleanup_task.events, LAMBDA e : e = "cleanup")) < MaxCleanups
    /\ cleanup_task' = [cleanup_task EXCEPT !.pc = "cleanup",
                                            !.events = @ \o <<"slept", "cleanup">>]
    /\ UNCHANGED <<main, emit_tasks, tasks, gauge, heap>>
    /\ MainUnchanged

\* store.cleanup() returns, or raises an Exception
CleanupEnds(ok) ==
    /\ cleanup_task.pc = "cleanup"
    /\ ~cleanup_task.must_cancel
    /\ cleanup_task' = IF ok
                       THEN [cleanup_task EXCEPT !.pc = "sleep",
                                                 !.events = Append(@, "cleaned")]
                       ELSE cleanup_except(cleanup_task)
    /\ UNCHANGED <<main, emit_tasks, tasks, gauge, heap>>
    /\ MainUnchanged

\* the cancelled cleanup task is resumed: CancelledError is raised at its
\* await, except asyncio.CancelledError returns
CleanupCancelled ==
    /\ cleanup_task.pc \in {"sleep", "cleanup"}
    /\ cleanup_task.must_cancel
    /\ cleanup_task' = [cleanup_task EXCEPT !.pc = "returned"]
    /\ UNCHANGED <<main, emit_tasks, tasks, gauge, heap>>
    /\ MainUnchanged

\* faulty variant of scheduler_shutdown: the scheduler is always told to wait
scheduler_shutdown_wait(wait) == FinalCall("scheduler.shutdown", Some(TRUE))

\* engine_scheduler.shutdown(app_config.scraper.terminateGracefully)
scheduler_shutdown(wait) == FinalCall("scheduler.shutdown", Some(wait))

\* the sleep loop of async_main is cancelled or interrupted; finally:
\* cleanup_task.cancel(), and cleanup_task is awaited
Interrupt ==
    /\ main.pc = "running"
    /\ main' = [main EXCEPT !.pc = "await_cleanup",
                            !.log = @ \o <<FinalCall("cleanup_task.cancel", None),
                                           FinalCall("await cleanup_task", None)>>]
    /\ cleanup_task' = [cleanup_task EXCEPT !.must_cancel = TRUE]
    /\ UNCHANGED <<emit_tasks, tasks, gauge, heap>>
    /\ MainUnchanged

\* the cleanup task has ended: the scheduler is shut down, and
\* http_client.close() is awaited
CleanupAwaited ==
    /\ main.pc = "await_cleanup"
    /\ cleanup_task.pc = "returned"
    /\ main' = [main EXCEPT !.pc = "http_close",
                            !.log = @ \o <<scheduler_shutdown(TerminateGracefully),
                                           FinalCall("http_client.close", None)>>]
    /\ UNCHANGED <<cleanup_task, emit_tasks, tasks, gauge, heap>>
    /\ MainUnchanged

\* http_client.close() returns; telemetry.shutdown() cancels the tracked
\* tasks that are not done and gathers the tracked tasks
HttpClosed ==
    /\ main.pc = "http_close"
    /\ main' = [main EXCEPT !.pc = "gather",
                            !.gathered = emit_tasks,
                            !.log = Append(@, FinalCall("telemetry.shutdown", None))]
    /\ tasks' = cancel_running(tasks, emit_tasks)
    /\ UNCHANGED <<cleanup_task, emit_tasks, gauge, heap>>
    /\ MainUnchanged

\* the gathered tasks are done and their callbacks have run (the discard
\* callback of a task is registered before gather's); the providers are shut
\* down, telemetry.shutdown() returns and fingerprint_store.close() is awaited
ShutdownReturns ==
    /\ main.pc = "gather"
    /\ \A n \in main.gathered :
          tasks[n].state \in {"done", "cancelled"} /\ n \notin emit_tasks
    /\ main' = [main EXCEPT !.pc = "fp_close",
                            !.log = Append(@, FinalCall("fingerprint_store.close", None))]
    /\ UNCHANGED <<cleanup_task, emit_tasks, tasks, gauge, heap>>
    /\ MainUnchanged

\* fingerprint_store.close() returns and state_store.close() is awaited
FingerprintStoreClosed ==
    /\ main.pc = "fp_close"
    /\ main' = [main EXCEPT !.pc = "state_close",
                            !.log = Append(@, FinalCall("state_store.close", None))]
    /\ UNCHANGED <<cleanup_task, emit_tasks, tasks, gauge, heap>>
    /\ MainUnchanged

\* state_store.close() returns and async_main with it
StateStoreClosed ==
    /\ main.pc = "state_close"
    /\ main' = [main EXCEPT !.pc = "exited"]
    /\ UNCHANGED <<cleanup_task, emit_tasks, tasks, gauge, heap>>
    /\ MainUnchanged

NextMain ==
    \/ \E status \in {"success", "error"}, batches \in BatchLists :
          TickEmits(status, batches)
    \/ \E n \in 1..MaxTasks : TickFinally(n)
    \/ \E n \in 1..MaxTasks : EmitRuns(n)
    \/ \E n \in 1..MaxTasks : Discard(n)
    \/ SleepEnds
    \/ \E ok \in BOOLEAN : CleanupEnds(ok)
    \/ CleanupCancelled
    \/ Interrupt
    \/ CleanupAwaited
    \/ HttpClosed
    \/ ShutdownReturns
    \/ FingerprintStoreClosed
    \/ StateStoreClosed

SpecMain == InitMain /\ [][NextMain]_vars

\* telemetry.shutdown() has been called
ShutdownCalled == main.pc \in {"gather", "fp_close", "state_close", "exited"}

\* telemetry.shutdown() has returned
ShutdownReturned == main.pc \in {"fp_close", "state_close", "exited"}

RECURSIVE Union(_)
Union(batches) ==
    IF batches = <<>> THEN <<>> ELSE <<Head(batches)>> \o Union(Tail(batches))

\* C27: after the emit step of a tick the gauge's cached list holds exactly
\* the observations derived from the records of that tick, the union over
\* its windows, and none from earlier ticks.
C27_GaugeHoldsTick ==
    [][\A n \in 1..Len(tasks) :
          (tasks[n].state = "pending" /\ tasks'[n].state = "done") =>
             heap'[gauge'.values] = gauge_values(Union(tasks[n].batches))]_vars

\* ------------------------------------------------------------------------
\* Telemetry.emit_metrics on the event loop and GaugeAggregator._callback on
\* the exporter's thread, interleaved at the operations on the lists
\* ------------------------------------------------------------------------
\* the most calls of emit_metrics
MaxEmits == 2

\* the readings of the records of a call: None or a number each
GaugeInputs == SeqsUpTo({None, Some(1), Some(2)}, 2)

\* no call of emit_metrics is going on; sets is history: the list each
\* set_values was given, with the values it then held
InitGauge ==
    /\ RestIdle
    /\ fnArgs = None
    /\ fnResult = [pc |-> "idle", values |-> 0, at |-> 0, emits |-> 0,
                   sets |-> <<>>]

GaugeUnchanged ==
    UNCHANGED <<conf, clock, engineVars, dedupVars, storeVars, main,
                cleanup_task, emit_tasks, tasks>>

\* emit_metrics(source, records) is called: `values = []`
EmitStarts(records) ==
    /\ fnResult.pc = "idle"
    /\ fnResult.emits < MaxEmits
    /\ fnArgs' = Some(records)
    /\ heap' = Append(heap, <<>>)
    /\ fnResult' = [fnResult EXCEPT !.pc = "loop", !.values = Len(heap) + 1,
                                    !.at = 1, !.emits = @ + 1]
    /\ UNCHANGED <<gauge, reader>>
    /\ GaugeUnchanged

\* one turn of `for record in records`: values.append((numeric_val, attrs))
\* unless the record has no reading
EmitAppends ==
    /\ fnResult.pc = "loop"
    /\ fnResult.at <= Len(fnArgs[1])
    /\ heap' = [heap EXCEPT ![fnResult.values] =
                   @ \o gauge_values(<<fnArgs[1][fnResult.at]>>)]
    /\ fnResult' = [fnResult EXCEPT !.at = @ + 1]
    /\ UNCHANGED <<fnArgs, gauge, reader>>
    /\ GaugeUnchanged

\* the loop is over: agg.set_values(values), and emit_metrics returns
EmitSets ==
    /\ fnResult.pc = "loop"
    /\ fnResult.at > Len(fnArgs[1])
    /\ LET r == set_values(gauge, heap, fnResult.values)
       IN  /\ gauge' = r.gauge
           /\ heap' = r.heap
    /\ fnResult' = [fnResult EXCEPT !.pc = "idle", !.values = 0, !.at = 0,
                                    !.sets = Append(@, heap[fnResult.values])]
    /\ fnArgs' = None
    /\ UNCHANGED reader
    /\ GaugeUnchanged

\* the exporter collects: _callback evaluates self.values and starts to
\* iterate over that list
CallbackStarts ==
    /\ reader.pc = "idle"
    /\ reader' = [pc |-> "iter", list |-> gauge.values, at |-> 1, out |-> <<>>,
                  began |-> Len(fnResult.sets)]
    /\ UNCHANGED <<fnArgs, fnResult, gauge, heap>>
    /\ GaugeUnchanged

\* one turn of the list comprehension: the next element of the list, or its
\* end, where _callback returns the observations
CallbackNext ==
    /\ reader.pc = "iter"
    /\ reader' = IF reader.at <= Len(heap[reader.list])
                 THEN [reader EXCEPT !.out = Append(@, heap[reader.list][reader.at]),
                                     !.at = @ + 1]
                 ELSE [reader EXCEPT !.pc = "returned"]
    /\ UNCHANGED <<fnArgs, fnResult, gauge, heap>>
    /\ GaugeUnchanged

\* the observations are exported; the next collection may start
CallbackDone ==
    /\ reader.pc = "returned"
    /\ reader' = [pc |-> "idle", list |-> 0, at |-> 0, out |-> <<>>, began |-> 0]
    /\ UNCHANGED <<fnArgs, fnResult, gauge, heap>>
    /\ GaugeUnchanged

NextGauge ==
    \/ \E records \in GaugeInputs : EmitStarts(records)
    \/ EmitAppends
    \/ EmitSets
    \/ CallbackStarts
    \/ CallbackNext
    \/ CallbackDone

SpecGauge == InitGauge /\ [][NextGauge]_vars

\* the values set_values was given the k-th time; the constructor's empty
\* list for k = 0
SetValues(k) == IF k = 0 THEN <<>> ELSE fnResult.sets[k]

\* C28: the gauge callback, run at any point relative to an emit step,
\* observes the complete list of values set by the previous emit or the
\* complete list set by the current one, never a partially updated list:
\* what it returns is the list that was set last when it began, in full; and
\* a list that was set is never changed afterwards.
C28_CallbackSeesWholeList ==
    [][/\ reader'.pc = "returned" => reader'.out = SetValues(reader'.began)
       /\ heap[gauge.values] = SetValues(Len(fnResult.sets))
       /\ heap'[gauge.values] = heap[gauge.values]]_vars

\* a collection that began before a set_values and ended after it has
\* returned the earlier list, which differs from the one now set
C28_Witness ==
    /\ reader.pc = "returned"
    /\ reader.began < Len(fnResult.sets)
    /\ reader.out # <<>>
    /\ heap[gauge.values] # reader.out
    /\ heap[gauge.values] # <<>>

\* the calls of the finally block of async_main, as the configuration has
\* them
FinalCalls ==
    <<FinalCall("cleanup_task.cancel", None),
      FinalCall("await cleanup_task", None),
      FinalCall("scheduler.shutdown", Some(TerminateGracefully)),
      FinalCall("http_client.close", None),
      FinalCall("telemetry.shutdown", None),
      FinalCall("fingerprint_store.close", None),
      FinalCall("state_store.close", None)>>

\* C29: on shutdown async_main cancels and awaits the cleanup task, shuts the
\* scheduler down with wait = terminateGracefully, closes the HTTP gateway,
\* shuts telemetry down, closes the fingerprint store and closes the state
\* store, in this order and each exactly once: the calls made so far are
\* always the first calls of this list, each made when the one before it
\* has returned, and async_main ends when all were made.
C29_ShutdownOrder ==
    /\ Len(main.log) <= Len(FinalCalls)
    /\ main.log = SubSeq(FinalCalls, 1, Len(main.log))
    /\ main.pc = "running" <=> main.log = <<>>
    /\ main.pc = "exited" => main.log = FinalCalls
    /\ Len(main.log) > 2 => cleanup_task.pc = "returned"
    /\ Len(main.log) > 5 =>
          \A n \in 1..Len(tasks) : tasks[n].state # "pending"

\* async_main has ended with terminateGracefully = false, after a cleanup
\* cycle and an emit task
C29_Witness ==
    /\ main.pc = "exited"
    /\ ~TerminateGracefully
    /\ cleanup_task.events # <<>>
    /\ tasks # <<>>

\* C30: the cleanup loop repeats sleep, then store.cleanup(); a failed
\* cleanup leaves the loop in its next sleep and changes no tick nor emit
\* task; the loop has ended only if it was cancelled, and once it has ended
\* cleanup is never invoked again.
C30_CleanupLoop ==
    [][/\ \A ok \in BOOLEAN :
             CleanupEnds(ok) => (cleanup_task'.pc = "sleep" /\ tasks' = tasks)
       /\ \A e \in 1..Len(cleanup_task'.events) :
             cleanup_task'.events[e] = "cleanup" =>
                /\ e > 1
                /\ cleanup_task'.events[e - 1] = "slept"
       /\ cleanup_task'.pc = "returned" => cleanup_task'.must_cancel
       /\ cleanup_task.pc = "returned" => cleanup_task' = cleanup_task]_vars

\* the loop was cancelled after a failed cleanup and a second cleanup
C30_Witness ==
    /\ cleanup_task.pc = "returned"
    /\ \E e \in 1..Len(cleanup_task.events) :
          /\ cleanup_task.events[e] = "error"
          /\ \E f \in (e + 1)..Len(cleanup_task.events) :
                cleanup_task.events[f] = "cleanup"

\* ------------------------------------------------------------------------
\* The windows a tick plans
\* ------------------------------------------------------------------------
\* C31: every window planned for a range tick is an ordered pair with
\* start <= end, in every reachable state (also when the watermark the tick
\* read was written by a tick of the source that started later).
C31_WindowsOrdered ==
    \A t \in TickIds :
        \A i \in WindowIds(ticks[t]) :
            LET w == ticks[t].windows[i].w
            IN  w # None => w[1] <= w[2]

\* ------------------------------------------------------------------------
\* utils.window_slices turn by turn, for every delta _parallel_delta can
\* return: timedelta(minutes | hours | days = value) has the sign of value,
\* and ParallelWindow.value is any int
\* ------------------------------------------------------------------------
\* the most turns of the loop that are followed
MaxTurns == 8

Deltas == (0 - 1)..MaxDelta

\* window_slices(start, end, delta) was called: slices = [], cursor = start
InitPlan ==
    /\ RestIdle
    /\ fnArgs \in [start : 0..MaxTime, end : 0..MaxTime, delta : Deltas]
    /\ fnResult = [pc |-> "while", cursor |-> fnArgs.start, slices |-> <<>>]

\* next_cursor = min(cursor + delta, end)
next_cursor(cursor, delta, end) == Min(cursor + delta, end)

\* one turn of `while cursor < end`
SliceTurn ==
    /\ fnResult.pc = "while"
    /\ fnResult.cursor < fnArgs.end
    /\ Len(fnResult.slices) < MaxTurns
    /\ LET nxt == next_cursor(fnResult.cursor, fnArgs.delta, fnArgs.end)
       IN  fnResult' = [fnResult EXCEPT
                           !.slices = Append(@, <<fnResult.cursor, nxt>>),
                           !.cursor = nxt]
    /\ UNCHANGED <<conf, clock, engineVars, dedupVars, fnArgs, storeVars, procVars>>

\* the loop condition fails: return slices
SliceReturn ==
    /\ fnResult.pc = "while"
    /\ ~(fnResult.cursor < fnArgs.end)
    /\ fnResult' = [fnResult EXCEPT !.pc = "returned"]
    /\ UNCHANGED <<conf, clock, engineVars, dedupVars, fnArgs, storeVars, procVars>>

NextPlan == SliceTurn \/ SliceReturn

SpecPlan == InitPlan /\ [][NextPlan]_vars

\* C32: for every parallelWindow the configuration accepts (any integer
\* value) and every start and end, window planning terminates with a finite
\* list of windows: every turn of the loop brings the cursor nearer to end,
\* so that the loop makes at most end - start turns.
C32_PlanningTerminates ==
    [][fnResult.pc = "while" /\ fnResult'.pc = "while" =>
          /\ fnArgs.end - fnResult'.cursor < fnArgs.end - fnResult.cursor
          /\ Len(fnResult'.slices) <= fnArgs.end - fnArgs.start]_vars

\* ------------------------------------------------------------------------
\* The fetch fan-out under contention for the per-source semaphore, the
\* strategy lock and the gateway semaphore, with the fairness of the event
\* loop
\* ------------------------------------------------------------------------
\* ConfScrape without the admin API: the OAuth source a plans three windows
\* and fetches two at a time; b plans one window, without auth and with
\* delta detection; the gateway has one permit; the intervals are longer
\* than the time modelled
ConfFan ==
    [ConfScrape EXCEPT !.enableAdminApi = FALSE,
                       !.source["a"].frequency = 10,
                       !.source["a"].parallelWindow = Some(1),
                       !.source["a"].firstScrapeStart = Some(0 - 2),
                       !.source["b"].frequency = 10,
                       !.source["b"].parallelWindow = None,
                       !.source["b"].firstScrapeStart = Some(0),
                       !.source["b"].runFirstScrape = TRUE]

InitFan ==
    /\ conf = ConfFan
    /\ clock = 1
    /\ alive = TRUE
    /\ kicked = FALSE
    /\ nTicks = 0
    /\ ticks = [t \in TickIds |-> IdleTick]
    /\ lastSuccess = [s \in Sources |-> None]
    /\ source_semaphores = [s \in Sources |-> None]
    /\ gwSem = ConfFan.maxGlobalConcurrency
    /\ covered = [s \in Sources |-> {}]
    /\ firstPlanned = [s \in Sources |-> None]
    /\ overlapped = [s \in Sources |-> FALSE]
    /\ issued = [s \in Sources |-> None]
    /\ DedupIdle

\* the steps of the scrape loop when every state-store call returns
NextFan ==
    \/ RunAllOnce
    \/ AdvanceClock
    \/ \E t \in TickIds : Read(t, TRUE)
    \/ \E t \in TickIds, i \in 1..(MaxClock + 1) : WindowAcquire(t, i)
    \/ \E t \in TickIds, i \in 1..(MaxClock + 1) : LockAcquire(t, i)
    \/ \E t \in TickIds, i \in 1..(MaxClock + 1), ok \in BOOLEAN,
          e \in {None} \cup {Some(x) : x \in ExpiresIn} :
            TokenResponse(t, i, ok, e)
    \/ \E t \in TickIds, i \in 1..(MaxClock + 1) : GatewayAcquire(t, i)
    \/ \E t \in TickIds, i \in 1..(MaxClock + 1),
          answer \in {"error", "object", "list"}, recs \in 0..MaxRecs :
            HttpResponse(t, i, answer, recs)
    \/ \E t \in TickIds, i \in 1..(MaxClock + 1), ok \in BOOLEAN,
          recs \in 0..MaxRecs :
            PipelineDone(t, i, ok, recs)
    \/ \E t \in TickIds : Commit(t, TRUE)

\* the event loop runs a task that is ready, a request in flight is
\* answered and a store call returns: a step of a tick that can be taken is
\* not put off for ever (the passing of time alone is no such step)
FairFan == WF_vars(NextFan /\ clock' = clock)

SpecFan == InitFan /\ [][NextFan]_vars /\ FairFan

\* C33: the fetch fan-out is free of deadlock: when every HTTP request and
\* store call returns, every window task gets the per-source semaphore, the
\* strategy lock and the gateway semaphore it waits for and releases them,
\* and every tick finishes: from some moment on no tick is running (a tick
\* finishes only when all its window tasks have returned) and every permit
\* is back.
C33_FanOutLive ==
    <>[](/\ kicked
         /\ \A t \in TickIds : ticks[t].pc \in {"idle", "done"}
         /\ gwSem = MaxGlobalConcurrency
         /\ \A s \in Sources :
               source_semaphores[s] \in {None, Some(SourceLimit(s))})

\* a window of a tick waits for the gateway while another waits for the
\* strategy lock and a third for the per-source semaphore
C33_Witness ==
    \E t \in TickIds :
        /\ \E i \in WindowIds(ticks[t]) : ticks[t].windows[i].pc = "wait_gw"
        /\ \E i \in WindowIds(ticks[t]) : ticks[t].windows[i].pc = "wait_lock"
        /\ \E i \in WindowIds(ticks[t]) : ticks[t].windows[i].pc = "wait_sem"

\* ------------------------------------------------------------------------
\* The run-level self-telemetry sample of a tick
\* ------------------------------------------------------------------------
\* C34: every finished tick has recorded its run-level self-telemetry
\* sample, and the status recorded is success only if the tick ran to its
\* end with no window error: a tick ended by an exception outside the
\* windows (state-store read or write, window planning, strategy
\* construction) is recorded with status error.
C34_StatusOfAbortedTick ==
    \A t \in TickIds :
        ticks[t].pc = "done" =>
            /\ ticks[t].recorded # None
            /\ ticks[t].recorded = Some("success") =>
                   ~ticks[t].raised /\ ~ticks[t].hadErrors

\* C35: for every non-empty batch of a tick the detached emit task runs the
\* metric mapping and the log mapping on the batch's records to completion:
\* when the task is done, emit_metrics and emit_logs were each called once
\* per batch and each call has returned.
C35_EmitRunsMappings ==
    [][\A n \in 1..Len(tasks) :
          (tasks[n].state = "pending" /\ tasks'[n].state = "done") =>
             LET calls == tasks'[n].calls
             IN  /\ Len(calls) = 2 * Len(tasks[n].batches)
                 /\ \A k \in 1..Len(calls) : calls[k].outcome = "returned"]_vars

\* ------------------------------------------------------------------------
\* The dedupe statistics a tick forwards to self-telemetry
\* ------------------------------------------------------------------------
\* the sum of a statistic over the finished pipeline runs 1..r of tick k
RECURSIVE StatsOfTick(_, _, _)
StatsOfTick(k, field, r) ==
    IF r = 0
    THEN 0
    ELSE StatsOfTick(k, field, r - 1)
         + (IF runs[r].tick = k
            THEN StatsAfter(last_stats, runs[r], runs[r])[field]
            ELSE 0)

\* C36: the dedupe hits, misses and total a tick forwards to self-telemetry
\* when it ends are the sums over the pipeline runs of that tick, whatever
\* pipeline runs of other sources or ticks interleave with it.
C36_DedupeStatsOfTick ==
    \A k \in RunIds :
        dedupe[k] # None =>
            \A field \in {"hits", "misses", "total"} :
                dedupe[k][1][field] = StatsOfTick(k, field, MaxPipelineRuns)

\* ------------------------------------------------------------------------
\* Token reuse across the ticks of a source
\* ------------------------------------------------------------------------
\* C37: a token acquired by a runtime OAuth source in one tick is reused by
\* later ticks of the source while now < expiresAt - TokenSkew: a tick that
\* started after the token was issued sends no token request while the
\* token is still valid.
C37_TokenReusedByLaterTicks ==
    [][\A t \in TickIds : \A i \in 1..(MaxClock + 1) :
          (/\ i \in WindowIds(ticks'[t])
           /\ ticks'[t].windows[i].pc = "token"
           /\ ~(i \in WindowIds(ticks[t]) /\ ticks[t].windows[i].pc = "token")) =>
              LET last == issued[ticks'[t].src]
              IN  ~(/\ last # None
                    /\ t > last[1].upto
                    /\ \/ last[1].expiresAt = None
                       \/ clock < last[1].expiresAt[1] - TokenSkew)]_vars

\* ------------------------------------------------------------------------
\* Start-up of async_main
\* ------------------------------------------------------------------------
\* the components are built and cleanup_orphans is awaited; the cleanup task
\* does not exist yet; source a has a frequency the scheduler accepts or one
\* it rejects
InitStartup ==
    /\ \E frequency \in {0, 1} :
          conf = [ConfScrape EXCEPT !.enableAdminApi = FALSE,
                                    !.source["a"].frequency = frequency]
    /\ clock = 0
    /\ alive = TRUE
    /\ kicked = FALSE
    /\ nTicks = 0
    /\ ticks = [t \in TickIds |-> IdleTick]
    /\ lastSuccess = [s \in Sources |-> None]
    /\ source_semaphores = [s \in Sources |-> None]
    /\ gwSem = ConfScrape.maxGlobalConcurrency
    /\ covered = [s \in Sources |-> {}]
    /\ firstPlanned = [s \in Sources |-> None]
    /\ overlapped = [s \in Sources |-> FALSE]
    /\ issued = [s \in Sources |-> None]
    /\ fnArgs = None
    /\ fnResult = None
    /\ fpStore = NewStore(build_store("sqlite", TRUE))
    /\ main = [pc |-> "cleanup_orphans", log |-> <<>>, gathered |-> {}]
    /\ cleanup_task = [pc |-> "absent", must_cancel |-> FALSE, events |-> <<>>]
    /\ emit_tasks = {}
    /\ tasks = <<>>
    /\ gauge = [values |-> 1]
    /\ heap = <<<<>>>>
    /\ reader = [pc |-> "idle", list |-> 0, at |-> 0, out |-> <<>>,
                 began |-> 0]
    /\ fingerprints = {}
    /\ fpLock = 0
    /\ fpWaiters = <<>>
    /\ runs = <<>>
    /\ keptLog = {}
    /\ removed = {}
    /\ tickEnded = {}
    /\ StatsIdle

\* ScraperScheduler.start: a source whose interval is not positive is
\* rejected with ValueError
StartRejects == \E s \in Sources : Frequency(s) <= 0

StartupUnchanged ==
    UNCHANGED <<conf, clock, alive, nTicks, ticks, lastSuccess,
                source_semaphores, gwSem, covered, firstPlanned, overlapped,
                issued, dedupVars, callVars, storeVars, reader, emit_tasks,
                tasks, gauge, heap>>

\* cleanup_orphans raises: the exception leaves async_main, which is not
\* inside its try statement yet
OrphansRaise ==
    /\ main.pc = "cleanup_orphans"
    /\ main' = [main EXCEPT !.pc = "raised"]
    /\ UNCHANGED <<cleanup_task, kicked>>
    /\ StartupUnchanged

\* cleanup_orphans returns: the cleanup task is created and
\* engine_scheduler.start() is called; it raises ValueError, or it returns
\* and run_all_once is awaited
OrphansCleaned ==
    /\ main.pc = "cleanup_orphans"
    /\ cleanup_task' = [cleanup_task EXCEPT !.pc = "sleep"]
    /\ main' = [main EXCEPT !.pc = IF StartRejects THEN "raised"
                                   ELSE "run_all_once"]
    /\ UNCHANGED kicked
    /\ StartupUnchanged

\* run_all_once returns and async_main enters its try statement, or it
\* raises (a tick of it raised) before the try statement
RunAllOnceEnds(ok) ==
    /\ main.pc = "run_all_once"
    /\ main' = [main EXCEPT !.pc = IF ok THEN "running" ELSE "raised"]
    /\ kicked' = TRUE
    /\ UNCHANGED cleanup_task
    /\ StartupUnchanged

\* asyncio.run: the main coroutine has raised, the tasks still pending on
\* the loop are cancelled before the loop is closed
RunnerCancels ==
    /\ main.pc = "raised"
    /\ cleanup_task.pc \in {"sleep", "cleanup"}
    /\ ~cleanup_task.must_cancel
    /\ cleanup_task' = [cleanup_task EXCEPT !.must_cancel = TRUE]
    /\ UNCHANGED <<main, kicked>>
    /\ StartupUnchanged

NextStartup ==
    \/ OrphansRaise
    \/ OrphansCleaned
    \/ \E ok \in BOOLEAN : RunAllOnceEnds(ok)
    \/ RunnerCancels
    \/ SleepEnds
    \/ \E ok \in BOOLEAN : CleanupEnds(ok)
    \/ CleanupCancelled
    \/ Interrupt
    \/ CleanupAwaited
    \/ HttpClosed
    \/ ShutdownReturns
    \/ FingerprintStoreClosed
    \/ StateStoreClosed

SpecStartup == InitStartup /\ [][NextStartup]_vars

\* the calls async_main has made that close a component
Closed == {main.log[i].call : i \in 1..Len(main.log)}

\* C38: when start-up fails after the components were built (cleanup_orphans,
\* scheduler.start or run_all_once raising), async_main has cancelled and
\* awaited the cleanup task, if it was created, and has closed the gateway,
\* telemetry and both stores when the failure leaves it.
C38_StartupFailureCloses ==
    main.pc = "raised" =>
        /\ cleanup_task.pc \in {"absent", "returned"}
        /\ {"http_client.close", "telemetry.shutdown",
            "fingerprint_store.close", "state_store.close"} \subseteq Closed

\* ------------------------------------------------------------------------
\* Self-telemetry gauges (Telemetry.record_self_scrape)
\* ------------------------------------------------------------------------
\* the most calls of record_self_scrape
MaxSelfCalls == 3

\* the last-value gauges record_self_scrape sets
SelfGaugeNames ==
    {"scraper_last_run_duration_seconds", "scraper_last_records_emitted"}

\* Telemetry after __init__: self_gauges (held in gauge) is empty, no list
\* exists; fnArgs holds self_enabled and dry_run, fnResult the history: the
\* arguments of the last call for each source, and the number of calls
InitSelf ==
    /\ conf = [ConfScrape EXCEPT !.enableAdminApi = FALSE]
    /\ clock = 0
    /\ alive = TRUE
    /\ kicked = TRUE
    /\ nTicks = 0
    /\ ticks = [t \in TickIds |-> IdleTick]
    /\ lastSuccess = [s \in Sources |-> None]
    /\ source_semaphores = [s \in Sources |-> None]
    /\ gwSem = ConfScrape.maxGlobalConcurrency
    /\ covered = [s \in Sources |-> {}]
    /\ firstPlanned = [s \in Sources |-> None]
    /\ overlapped = [s \in Sources |-> FALSE]
    /\ issued = [s \in Sources |-> None]
    /\ fnArgs \in [self_enabled : BOOLEAN, dry_run : BOOLEAN]
    /\ fnResult = [latest |-> [s \in Sources |-> None], calls |-> 0]
    /\ fpStore = NewStore(build_store("sqlite", TRUE))
    /\ main = [pc |-> "running", log |-> <<>>, gathered |-> {}]
    /\ cleanup_task = [pc |-> "sleep", must_cancel |-> FALSE, events |-> <<>>]
    /\ emit_tasks = {}
    /\ tasks = <<>>
    /\ gauge = [name \in {} |-> None]
    /\ heap = <<>>
    /\ reader = [pc |-> "idle", list |-> 0, at |-> 0, out |-> <<>>,
                 began |-> 0]
    /\ fingerprints = {}
    /\ fpLock = 0
    /\ fpWaiters = <<>>
    /\ runs = <<>>
    /\ keptLog = {}
    /\ removed = {}
    /\ tickEnded = {}
    /\ StatsIdle

\* Telemetry._self_gauge(name, unit): the aggregator of the name, created
\* with an empty list of values when there is none
self_gauge(gs, h, name) ==
    IF name \in DOMAIN gs
    THEN [gauges |-> gs, heap |-> h]
    ELSE [gauges |-> [n \in DOMAIN gs \cup {name} |->
                         IF n = name THEN [values |-> Len(h) + 1] ELSE gs[n]],
          heap |-> Append(h, <<>>)]

\* self._self_gauge(name, unit).set_values([(value, attrs)])
set_self_gauge(gs, h, name, value, attrs) ==
    LET got == self_gauge(gs, h, name)
        set == set_values(got.gauges[name],
                          Append(got.heap, <<[value |-> value, attrs |-> attrs]>>),
                          Len(got.heap) + 1)
    IN  [gauges |-> [got.gauges EXCEPT ![name] = set.gauge], heap |-> set.heap]

\* Telemetry.record_self_scrape(source_name, status, duration_seconds,
\* record_count, api_type) as far as the two gauges go
record_self_scrape(gs, h, source_name, status, duration_seconds, record_count) ==
    IF ~fnArgs.self_enabled \/ fnArgs.dry_run
    THEN [gauges |-> gs, heap |-> h]
    ELSE LET attrs == [source |-> source_name, status |-> status,
                       api_type |-> conf.source[source_name].type]
             first == set_self_gauge(gs, h, "scraper_last_run_duration_seconds",
                                     duration_seconds, attrs)
         IN  set_self_gauge(first.gauges, first.heap,
                            "scraper_last_records_emitted", record_count, attrs)

\* the finally block of scrape_source of a tick of source s calls
\* record_self_scrape
RecordSelfScrape(s, status, duration, count) ==
    /\ fnResult.calls < MaxSelfCalls
    /\ LET r == record_self_scrape(gauge, heap, s, status, duration, count)
       IN  /\ gauge' = r.gauges
           /\ heap' = r.heap
    /\ fnResult' = [fnResult EXCEPT
                       !.calls = @ + 1,
                       !.latest[s] = Some([scraper_last_run_duration_seconds |-> duration,
                                           scraper_last_records_emitted |-> count])]
    /\ UNCHANGED <<conf, clock, engineVars, dedupVars, storeVars, fnArgs, main,
                   cleanup_task, emit_tasks, tasks, reader>>

NextSelf ==
    \E s \in Sources, status \in {"success", "error"}, duration \in 1..2,
       count \in 0..1 :
        RecordSelfScrape(s, status, duration, count)

SpecSelf == InitSelf /\ [][NextSelf]_vars

\* the cached observations of the self gauge of the name
SelfObservations(name) ==
    IF name \in DOMAIN gauge THEN heap[gauge[name].values] ELSE <<>>

\* C39: with self-telemetry on, the cached observations of
\* scraper_last_run_duration_seconds and scraper_last_records_emitted hold,
\* for every source that has recorded a tick, exactly one observation of the
\* source, with the value of its latest tick.
C39_SelfGaugesPerSource ==
    (fnArgs.self_enabled /\ ~fnArgs.dry_run) =>
        \A name \in SelfGaugeNames : \A s \in Sources :
            fnResult.latest[s] # None =>
                LET obs == SelfObservations(name)
                    of == {i \in 1..Len(obs) : obs[i].attrs.source = s}
                IN  /\ Cardinality(of) = 1
                    /\ \A i \in of : obs[i].value = fnResult.latest[s][1][name]

\* ------------------------------------------------------------------------
\* One tick of scrape_source from its gather on: the windows' pipeline runs
\* and the records handed to the emitter
\* ------------------------------------------------------------------------
\* the most windows of the tick
MaxTickWindows == 2

\* the most records a window's fetch returns
MaxFetched == 2

\* the tick has planned its windows and started run_window for each; the
\* source has no filter rules and no delta detection, limit is its
\* maxRecordsPerScrape; results holds what each run_window returned
InitEmitTick ==
    /\ RestIdle
    /\ fnArgs \in [windows : 1..MaxTickWindows, limit : Limits]
    /\ fnResult = [pc |-> "gather",
                   results |-> [i \in 1..MaxTickWindows |-> None],
                   all_records |-> <<>>, telemetry_batches |-> <<>>,
                   had_errors |-> FALSE]

\* RecordPipeline.run(records, source) of a source without delta detection:
\* _apply_filters, then _apply_limits
run(records, drop, keep, limit) ==
    apply_limits(apply_filters(records, drop, keep).out, limit)

\* the for loop over the gathered results from result i on: the records of
\* each chunk extend all_records, and a chunk with records adds a batch
RECURSIVE collect(_, _, _)
collect(r, results, i) ==
    IF i > Len(results)
    THEN r
    ELSE LET chunk == results[i]
         IN  collect([r EXCEPT
                         !.had_errors = @ \/ chunk.errored,
                         !.all_records = @ \o chunk.records,
                         !.telemetry_batches =
                             IF chunk.records # <<>>
                             THEN Append(@, chunk.records)
                             ELSE @],
                     results, i + 1)

\* run_window(i) returns: the fetch gave the records and pipeline.run
\* processed them, or an exception was caught
RunWindowReturns(i, fetched, ok) ==
    /\ fnResult.pc = "gather"
    /\ i \in 1..fnArgs.windows
    /\ fnResult.results[i] = None
    /\ fnResult' = [fnResult EXCEPT !.results[i] =
                       IF ok
                       THEN Some([records |-> run(fetched, <<>>, <<>>, fnArgs.limit),
                                  errored |-> FALSE])
                       ELSE Some([records |-> <<>>, errored |-> TRUE])]
    /\ PipelineUnchanged

\* every run_window has returned: gather returns the results in the order
\* of the windows, the tick collects them and hands telemetry_batches to
\* _emit_telemetry_async
GatherReturns ==
    /\ fnResult.pc = "gather"
    /\ \A i \in 1..fnArgs.windows : fnResult.results[i] # None
    /\ fnResult' = collect([fnResult EXCEPT !.pc = "emitted"],
                           [i \in 1..fnArgs.windows |-> fnResult.results[i][1]],
                           1)
    /\ PipelineUnchanged

NextEmitTick ==
    \/ \E i \in 1..MaxTickWindows, ok \in BOOLEAN,
          fetched \in SeqsUpTo({{1}, {2}}, MaxFetched) :
            RunWindowReturns(i, fetched, ok)
    \/ GatherReturns

SpecEmitTick == InitEmitTick /\ [][NextEmitTick]_vars

\* the number of records in the batches
RECURSIVE Handed(_)
Handed(batches) ==
    IF batches = <<>> THEN 0 ELSE Len(Head(batches)) + Handed(Tail(batches))

\* C40: with maxRecordsPerScrape > 0 a tick hands at most maxRecordsPerScrape
\* records to the emitter, whatever the number of its windows.
C40_TickLimit ==
    (/\ fnResult.pc = "emitted"
     /\ fnArgs.limit # None
     /\ fnArgs.limit[1] > 0) =>
        Handed(fnResult.telemetry_batches) <= fnArgs.limit[1]

====
